---- MODULE Spec2Model ----
(***************************************************************************)
(* Model of the notification dispatcher: the three-tier priority queue,    *)
(* the worker pipeline, the intake service (Create, Cancel), the retry     *)
(* scheduler, the scheduled-delivery scheduler and the repository they     *)
(* share.  Every repository call, queue operation and provider call is one *)
(* atomic step; a handler is the sequence of its steps, and steps of       *)
(* different goroutines interleave freely.                                 *)
(***************************************************************************)
EXTENDS Integers, Sequences, FiniteSets, TLC

\* ---------------------------------------------------------------- bounds
\* Number of notification rows the store can come to hold: in the lifecycle
\* specification, in the queue specification, in the intake specification,
\* in the retry specification.
MaxNotif == 1
QueueNotif == 2
IntakeNotif == 1
RetryNotif == 1
RestartNotif == 2
\* Rows a due-query returns at most where the limit is scaled down.
ScaledLimit == 1
\* Rows the store can come to hold in the batch specification, and the
\* longest batch a caller submits there below the size limit.
BatchNotif == 2
BatchLen == 2
\* The rate limiter specification: tokens per second and burst of a channel
\* (a scaled stand-in for 100), the notifications waiting on the queue, and
\* the seconds the clock runs for.
ScaledRate == 1
RateNotif == 3
RateHorizon == 3
\* Rows the database holds in the scheduler-tick specification.
TickNotif == 3
\* Re-admissions by the retry scheduler in the stale-read specification.
StaleRetries == 4
\* Worker goroutines of the pool that get scheduled while notifications
\* go through their whole lifecycle.
NumWorkers == 1
\* Worker goroutines the pool starts.
PoolSize == 2
\* Concurrent intake (Create) calls.
NumClients == 2
\* Concurrent Cancel calls.
NumCancellers == 1
\* Tier capacities of the queue (scaled stand-ins for 1000 / 5000 / 2000).
HighCap == 2
NormalCap == 2
LowCap == 1

\* ------------------------------------------------------ program constants
\* buildNotification: MaxRetries: 3
MaxRetries == 3
\* config.Load: RETRY_BACKOFF_1..3 (seconds)
RetryBackoff == <<5, 30, 120>>
\* LIMIT 500 of both due-queries
DueLimit == 500
\* Validate: len(r.Content) > 4096
MaxContentLen == 4096
\* CreateBatch: len(requests) > 1000
MaxBatchSize == 1000
\* config.Load: RATE_LIMIT_PER_CHANNEL
RateLimit == 100
\* queue.New: make(chan Item, 1000 / 5000 / 2000)
HighCapacity == 1000
NormalCapacity == 5000
LowCapacity == 2000
\* The offset of a deferred request's scheduled_at (scenario 6: now + 60 s).
ScheduleDelay == 60

\* A nil pointer / SQL NULL in a timestamp column.
Null == -1

Workers == 1..PoolSize
Running == 1..NumWorkers
Clients == 1..NumClients
Cancellers == 1..NumCancellers

StatusPending == "pending"
StatusQueued == "queued"
StatusProcessing == "processing"
StatusSent == "sent"
StatusFailed == "failed"
StatusCancelled == "cancelled"
StatusScheduled == "scheduled"

PriorityHigh == "high"
PriorityNormal == "normal"
PriorityLow == "low"

ChannelSMS == "sms"
ChannelEmail == "email"
ChannelPush == "push"

ErrNone == "nil"
ErrNotFound == "NotFound"
ErrConflict == "Conflict"
ErrInvalidChannel == "InvalidChannel"
ErrInvalidPriority == "InvalidPriority"
ErrInvalidRecipient == "InvalidRecipient"
ErrInvalidContent == "InvalidContent"
ErrAlreadyCancelled == "AlreadyCancelled"
ErrNotCancellable == "NotCancellable"
ErrQueueFull == "QueueFull"
ErrBatchTooLarge == "BatchTooLarge"
ErrBatchEmpty == "BatchEmpty"
\* Any error of the database driver (connection lost, statement failed).
ErrStore == "store error"

VARIABLES
    now,        \* wall clock, seconds
    rows,       \* the notifications table: a sequence, the id is the index
    q,          \* the queue: its three buffered channels, by priority
    qcap,       \* the queue: the capacity New gave each channel
    tickLimit,  \* the repository: the LIMIT of the two due-queries
    ratePerSec, \* the rate limiter: tokens per second and burst of every channel
    limiters,   \* the rate limiter: the tokens in each channel's bucket
    sendLog,    \* provider: the times of the Send calls received, per channel
    done,       \* main: the workers' context has been cancelled
    mainpc,     \* main: position in the shutdown sequence
    wg,         \* pool: the counter of the WaitGroup
    storeUp,    \* the database answers; while it does not, every repository call fails
    wpc,        \* worker: position in Run / process
    witem,      \* worker: the dequeued item
    wn,         \* worker: the row as fetched by GetByID
    wok,        \* worker: whether the provider accepted
    cpc,        \* Create call: position
    creq,       \* Create call: request and idempotency key
    cn,         \* Create call: the notification built (its id, 0 before insert)
    cres,       \* Create call: the returned (notification, duplicate, error)
    kpc,        \* Cancel call: position
    kid,        \* Cancel call: the id passed
    kres,       \* Cancel call: the error returned
    rpc,        \* retry scheduler: position in poll
    rlist,      \* retry scheduler: rows of FindDueRetries still to visit
    rcur,       \* retry scheduler: the row being visited
    spc,        \* scheduled scheduler: position in poll
    slist,      \* scheduled scheduler: rows of FindDueScheduled still to visit
    scur,       \* scheduled scheduler: the row being visited
    sends,      \* provider: number of Send calls received per notification
    accepted,   \* provider: number of Send calls answered 202 per notification
    cancelOk,   \* ids for which a Cancel call has returned nil
    intakeEnq,  \* number of items the intake path has enqueued per notification
    qlog,       \* the items sent to and received from each channel, in order
    batches,    \* the batches table: a sequence, the id is the index
    ubc,        \* worker: UpdateBatchCounts goroutines started and not yet run, per batch
    bpc,        \* CreateBatch call: position
    bn,         \* CreateBatch call: the notifications built
    btx,        \* CreateBatch call: the statements of the open transaction
    bids,       \* CreateBatch call: the ids of the children committed
    bidx,       \* CreateBatch call: index of the enqueue loop
    bres        \* CreateBatch call: the returned (batch, error)

vars == <<now, rows, q, qcap, tickLimit, wg, mainpc, ratePerSec, limiters, sendLog, done, storeUp, wpc, witem, wn, wok, cpc, creq, cn, cres,
          kpc, kid, kres, rpc, rlist, rcur, spc, slist, scur, sends, accepted, cancelOk,
          intakeEnq, qlog, batches, ubc, bpc, bn, btx, bids, bidx, bres>>

workerVars == <<wpc, witem, wn, wok>>
clientVars == <<cpc, creq, cn, cres>>
cancelVars == <<kpc, kid, kres>>
retryVars == <<rpc, rlist, rcur>>
schedVars == <<spc, slist, scur>>
providerVars == <<sends, accepted>>
ghostVars == <<cancelOk, intakeEnq>>
batchVars == <<batches, bpc, bn, btx, bids, bidx, bres>>

Ids == 1..Len(rows)
\* Every id a run of any of the specifications can hand out.
AllIds == 1..(MaxNotif + QueueNotif + IntakeNotif)

Min(a, b) == IF a < b THEN a ELSE b


\* ------------------------------------------------------------------ domain
Channels == {ChannelSMS, ChannelEmail, ChannelPush}
Priorities == {PriorityHigh, PriorityNormal, PriorityLow}

ChannelIsValid(c) == c \in {"sms", "email", "push"}
PriorityIsValid(p) == p \in {PriorityHigh, PriorityNormal, PriorityLow}

\* A Validate that checks the content before the recipient and lets a
\* content of MaxContentLen + 1 bytes pass.
ValidateLax(r) ==
    IF ~ChannelIsValid(r.channel) THEN ErrInvalidChannel
    ELSE IF ~PriorityIsValid(r.priority) THEN ErrInvalidPriority
    ELSE IF r.content_len = 0 \/ r.content_len > MaxContentLen + 1 THEN ErrInvalidContent
    ELSE IF r.recipient = "" THEN ErrInvalidRecipient
    ELSE ErrNone

\* CreateNotificationRequest.Validate: the first failing rule decides.
Validate(r) ==
    IF ~ChannelIsValid(r.channel) THEN ErrInvalidChannel
    ELSE IF ~PriorityIsValid(r.priority) THEN ErrInvalidPriority
    ELSE IF r.recipient = "" THEN ErrInvalidRecipient
    ELSE IF r.content_len = 0 \/ r.content_len > MaxContentLen THEN ErrInvalidContent
    ELSE ErrNone

\* NotificationService.buildNotification; batchID 0 stands for nil.
buildNotification(req, idempotencyKey, batchID) ==
    [ batch_id      |-> batchID,
      status        |-> IF req.scheduled_at # Null THEN StatusScheduled ELSE StatusPending,
      channel       |-> req.channel,
      priority      |-> req.priority,
      key           |-> idempotencyKey,
      retry_count   |-> 0,
      max_retries   |-> MaxRetries,
      next_retry_at |-> Null,
      scheduled_at  |-> req.scheduled_at,
      sent_at       |-> Null,
      msg           |-> FALSE,
      err           |-> FALSE ]

\* queue.Item built from a notification.
Item(id, n) == [id |-> id, channel |-> n.channel, priority |-> n.priority]
NoItem == [id |-> 0, channel |-> "", priority |-> ""]

\* -------------------------------------------------------------- repository
\* Create: the store rejects a second row with the same non-null key.
KeyTaken(r, key) == \E i \in 1..Len(r) : r[i].key = key
\* A store without the unique constraint on idempotency_key.
RepoCreateNoConflict(r, n) == FALSE
RepoCreateConflict(r, n) == n.key # "" /\ KeyTaken(r, n.key)
RepoCreate(r, n) == Append(r, n)

\* A lookup that never finds the key.
GetByIdempotencyKeyNotFound(r, key) == 0
\* GetByIdempotencyKey: the id of the row holding the key, 0 for NotFound.
GetByIdempotencyKey(r, key) ==
    IF KeyTaken(r, key) THEN CHOOSE i \in 1..Len(r) : r[i].key = key ELSE 0

\* A status write that is acknowledged and lost.
UpdateStatusLost(r, id, st) == r

\* UPDATE ... WHERE id = $n touches no row when the id is unknown.
UpdateStatus(r, id, st) ==
    IF id \in 1..Len(r) THEN [r EXCEPT ![id].status = st] ELSE r

\* A MarkSent that writes the status and leaves sent_at alone.
MarkSentNoTime(r, id, sentAt) ==
    IF id \in 1..Len(r)
    THEN [r EXCEPT ![id].status = StatusSent, ![id].msg = TRUE, ![id].err = FALSE]
    ELSE r

\* msg: provider_msg_id is not NULL (MarkSent binds a Go string, which is
\* never NULL); err: error_message is not NULL.
MarkSent(r, id, sentAt) ==
    IF id \in 1..Len(r)
    THEN [r EXCEPT ![id].status = StatusSent, ![id].msg = TRUE,
                   ![id].sent_at = sentAt, ![id].err = FALSE]
    ELSE r

MarkFailed(r, id) ==
    IF id \in 1..Len(r)
    THEN [r EXCEPT ![id].status = StatusFailed, ![id].err = TRUE,
                   ![id].next_retry_at = Null]
    ELSE r

ScheduleRetry(r, id, retryCount, nextRetry) ==
    IF id \in 1..Len(r)
    THEN [r EXCEPT ![id].status = StatusFailed, ![id].retry_count = retryCount,
                   ![id].next_retry_at = nextRetry, ![id].err = TRUE]
    ELSE r

RepoCancel(r, id) ==
    IF id \in 1..Len(r) THEN [r EXCEPT ![id].status = StatusCancelled] ELSE r

\* A due-query for retries that also returns rows already queued again.
DueRetryInFlight(n, t) ==
    /\ n.status \in {StatusFailed, StatusQueued}
    /\ n.retry_count < n.max_retries
    /\ n.next_retry_at # Null
    /\ n.next_retry_at <= t

\* A due-query for retries that leaves out the retry budget.
DueRetryNoBudget(n, t) ==
    /\ n.status = StatusFailed
    /\ n.next_retry_at # Null
    /\ n.next_retry_at <= t

\* A due-query for scheduled rows that does not look at the clock.
DueScheduledEarly(n, t) == n.status = StatusScheduled

\* The predicate of FindDueRetries and that of FindDueScheduled; a NULL
\* timestamp compares as not due.
DueRetry(n, t) ==
    /\ n.status = StatusFailed
    /\ n.retry_count < n.max_retries
    /\ n.next_retry_at # Null
    /\ n.next_retry_at <= t

DueScheduled(n, t) ==
    /\ n.status = StatusScheduled
    /\ n.scheduled_at # Null
    /\ n.scheduled_at <= t

\* The possible results of a due-query: the matching rows, cut to LIMIT rows.
Limited(S) == {T \in SUBSET S : Cardinality(T) = Min(Cardinality(S), tickLimit)}
FindDueRetries(r, t) == Limited({i \in 1..Len(r) : DueRetry(r[i], t)})
FindDueScheduled(r, t) == Limited({i \in 1..Len(r) : DueScheduled(r[i], t)})

\* The row CreateBatch inserts into batches.
NewBatch(total) == [total |-> total, pending |-> total, sent |-> 0, failed |-> 0,
                    cancelled |-> 0]

\* CreateBatch: the transaction holds its inserts until Commit; Rollback (the
\* deferred call on every error return) drops them.
TxBegin == [batch |-> << >>, children |-> << >>]
TxInsertBatch(tx, b) == [tx EXCEPT !.batch = Append(@, b)]
TxInsertChild(tx, n) == [tx EXCEPT !.children = Append(@, n)]
\* A commit that loses the last insert.
CommitChildrenDropsLast(r, tx) == r \o SubSeq(tx.children, 1, Len(tx.children) - 1)
CommitChildren(r, tx) == r \o tx.children
CommitBatch(b, tx) == b \o tx.batch

\* The children of a batch, and UpdateBatchCounts: the four subqueries.
Children(r, b) == {i \in 1..Len(r) : r[i].batch_id = b}
CountIn(r, b, sts) == Cardinality({i \in Children(r, b) : r[i].status \in sts})
UpdateBatchCounts(bs, r, b) ==
    IF b \in 1..Len(bs)
    THEN [bs EXCEPT ![b].pending = CountIn(r, b, {StatusPending, StatusQueued,
                                                 StatusProcessing, StatusScheduled}),
                    ![b].sent = CountIn(r, b, {StatusSent}),
                    ![b].failed = CountIn(r, b, {StatusFailed}),
                    ![b].cancelled = CountIn(r, b, {StatusCancelled})]
    ELSE bs

\* A repository call fails while the database does not answer; one made
\* with the workers' context also fails once that context is cancelled.
RequestFails == ~storeUp
WorkerFails == done \/ ~storeUp
\* The table after a write that may have failed.
Written(table, written, fails) == IF fails THEN table ELSE written

\* ------------------------------------------------------------------- queue
\* New: the capacities of the three channels, and their scaled stand-ins.
NewCap(p) == CASE p = PriorityHigh -> HighCapacity
               [] p = PriorityNormal -> NormalCapacity
               [] OTHER -> LowCapacity
ScaledCap(p) == CASE p = PriorityHigh -> HighCap
                  [] p = PriorityNormal -> NormalCap
                  [] OTHER -> LowCap
Cap(p) == qcap[p]

\* A send that finds room in every buffer.
EnqueueAlways(qq, item) == TRUE

\* Enqueue: the non-blocking send succeeds iff the tier's buffer has room.
EnqueueOk(qq, item) == PriorityIsValid(item.priority) /\ Len(qq[item.priority]) < Cap(item.priority)
\* A channel that hands out the newest item first.
EnqueueFirst(qq, item) == [qq EXCEPT ![item.priority] = <<item>> \o @]
Enqueue(qq, item) == [qq EXCEPT ![item.priority] = Append(@, item)]

\* The history of the channels: every item sent, every item received, and
\* the notifications whose last Enqueue by a scheduler met a full tier.
LogEnqueue(l, item) ==
    [l EXCEPT !.enq[item.priority] = Append(@, item), !.full = @ \ {item.id}]
LogFull(l, id) == [l EXCEPT !.full = @ \cup {id}]
LogDequeue(l, p, item) == [l EXCEPT !.deq[p] = Append(@, item)]

\* Depths
Depth(qq, p) == Len(qq[p])

\* A blocking select that lacks the case for the high channel.
ReadyNoHigh(qq) == {p \in {PriorityNormal, PriorityLow} : Len(qq[p]) > 0}

\* Dequeue: the channels a select can receive from, and the receive itself.
Ready(qq) == {p \in Priorities : Len(qq[p]) > 0}
Receive(qq, p) == [qq EXCEPT ![p] = Tail(@)]

\* ------------------------------------------------------------ rate limiter
\* ratelimiter.New: one bucket per channel, rate.NewLimiter(r, burst) with
\* burst = ratePerSec; a bucket starts full.
NewLimiters(rate) == [c \in Channels |-> rate]
\* The buckets after the given number of seconds: rate tokens a second are
\* added to each, up to the burst.
Refill(l, rate, elapsed) == [c \in Channels |-> Min(rate, l[c] + rate * elapsed)]
\* Wait: the channel's bucket has a token, and Wait takes it.
HasToken(l, ch) == l[ch] > 0
TakeToken(l, ch) == [l EXCEPT ![ch] = @ - 1]

\* ------------------------------------------------------------------ worker
NoRow == [retry_count |-> 0, max_retries |-> 0, channel |-> "", batch_id |-> 0]
\* The fields of the fetched row that process and handleFailure read later.
Fetched(n) == [retry_count |-> n.retry_count, max_retries |-> n.max_retries,
               channel |-> n.channel, batch_id |-> n.batch_id]

\* handleFailure: the backoff entry for the retry count read, the last one
\* for every count beyond the sequence.
BackoffFor(retryCount) ==
    LET idx == IF retryCount >= Len(RetryBackoff) THEN Len(RetryBackoff) - 1
               ELSE retryCount
    IN RetryBackoff[idx + 1]

\* A handleFailure that schedules a retry whatever the retry count read.
handleFailureNoBudget(r, id, n, t) ==
    ScheduleRetry(r, id, n.retry_count + 1, t + BackoffFor(n.retry_count))

handleFailure(r, id, n, t) ==
    IF n.retry_count >= n.max_retries
    THEN MarkFailed(r, id)
    ELSE ScheduleRetry(r, id, n.retry_count + 1, t + BackoffFor(n.retry_count))

\* A Dequeue whose first step is a select over all three channels.
Dequeue1NoPriority(w) ==
    /\ wpc[w] = "deq1"
    /\ IF Ready(q) # {}
       THEN /\ \E p \in Ready(q) :
                  /\ witem' = [witem EXCEPT ![w] = Head(q[p])]
                  /\ q' = Receive(q, p)
                  /\ qlog' = LogDequeue(qlog, p, witem'[w])
            /\ wpc' = [wpc EXCEPT ![w] = "fetch"]
       ELSE /\ wpc' = [wpc EXCEPT ![w] = "deq2"]
            /\ UNCHANGED <<witem, q, qlog>>
    /\ UNCHANGED <<qcap, tickLimit, wg, mainpc, ratePerSec, limiters, sendLog, done, storeUp, batchVars, ubc, now, rows, wn, wok, clientVars, cancelVars, retryVars, schedVars,
                   providerVars, ghostVars>>

\* Run -> Dequeue, step 1: the non-blocking receive on the high channel.
Dequeue1(w) ==
    /\ wpc[w] = "deq1"
    /\ IF Len(q[PriorityHigh]) > 0
       THEN /\ witem' = [witem EXCEPT ![w] = Head(q[PriorityHigh])]
            /\ q' = Receive(q, PriorityHigh)
            /\ qlog' = LogDequeue(qlog, PriorityHigh, witem'[w])
            /\ wpc' = [wpc EXCEPT ![w] = "fetch"]
       ELSE /\ wpc' = [wpc EXCEPT ![w] = "deq2"]
            /\ UNCHANGED <<witem, q, qlog>>
    /\ UNCHANGED <<qcap, tickLimit, wg, mainpc, ratePerSec, limiters, sendLog, done, storeUp, batchVars, ubc, now, rows, wn, wok, clientVars, cancelVars, retryVars, schedVars,
                   providerVars, ghostVars>>

\* A blocking select that lacks the case for the context's Done channel.
Dequeue2NoDone(w) ==
    /\ wpc[w] = "deq2"
    /\ \E p \in Ready(q) :
          /\ witem' = [witem EXCEPT ![w] = Head(q[p])]
          /\ q' = Receive(q, p)
          /\ qlog' = LogDequeue(qlog, p, witem'[w])
    /\ wpc' = [wpc EXCEPT ![w] = "fetch"]
    /\ UNCHANGED <<qcap, tickLimit, wg, mainpc, ratePerSec, limiters, sendLog, done, storeUp, batchVars, ubc, now, rows, wn, wok, clientVars, cancelVars, retryVars, schedVars,
                   providerVars, ghostVars>>

\* Dequeue, step 2: select takes any one of the ready channels, or the
\* context's Done channel once the context is cancelled; Run then returns
\* and the goroutine's deferred wg.Done() runs.
Dequeue2(w) ==
    /\ wpc[w] = "deq2"
    /\ \/ /\ \E p \in Ready(q) :
                /\ witem' = [witem EXCEPT ![w] = Head(q[p])]
                /\ q' = Receive(q, p)
                /\ qlog' = LogDequeue(qlog, p, witem'[w])
          /\ wpc' = [wpc EXCEPT ![w] = "fetch"]
          /\ UNCHANGED wg
       \/ /\ done
          /\ wpc' = [wpc EXCEPT ![w] = "stopped"]
          /\ wg' = wg - 1
          /\ UNCHANGED <<witem, q, qlog>>
    /\ UNCHANGED <<qcap, tickLimit, mainpc, ratePerSec, limiters, sendLog, done, storeUp, batchVars, ubc, now, rows, wn, wok, clientVars, cancelVars, retryVars, schedVars,
                   providerVars, ghostVars>>

\* process returns early: the locals of the call are gone and Run calls
\* Dequeue again.
Abandon(w) ==
    /\ wpc' = [wpc EXCEPT ![w] = "deq1"]
    /\ witem' = [witem EXCEPT ![w] = NoItem]
    /\ wn' = [wn EXCEPT ![w] = NoRow]
    /\ wok' = [wok EXCEPT ![w] = FALSE]

\* A fetch that does not look at the status of the row.
FetchAnyStatus(w) ==
    /\ wpc[w] = "fetch"
    /\ IF WorkerFails \/ witem[w].id \notin Ids
       THEN /\ wpc' = [wpc EXCEPT ![w] = "deq1"]
            /\ witem' = [witem EXCEPT ![w] = NoItem]
            /\ UNCHANGED wn
       ELSE /\ wpc' = [wpc EXCEPT ![w] = "mark"]
            /\ wn' = [wn EXCEPT ![w] = Fetched(rows[witem[w].id])]
            /\ UNCHANGED witem
    /\ UNCHANGED <<qcap, tickLimit, wg, mainpc, ratePerSec, limiters, sendLog, done, storeUp, batchVars, ubc, now, rows, q, qlog, wok, clientVars, cancelVars, retryVars, schedVars,
                   providerVars, ghostVars>>

\* process: GetByID and the check for a cancelled row.  A failed GetByID
\* ends the call.
Fetch(w) ==
    /\ wpc[w] = "fetch"
    /\ IF WorkerFails \/ witem[w].id \notin Ids \/ rows[witem[w].id].status = StatusCancelled
       THEN /\ wpc' = [wpc EXCEPT ![w] = "deq1"]
            /\ witem' = [witem EXCEPT ![w] = NoItem]
            /\ UNCHANGED wn
       ELSE /\ wpc' = [wpc EXCEPT ![w] = "mark"]
            /\ wn' = [wn EXCEPT ![w] = Fetched(rows[witem[w].id])]
            /\ UNCHANGED witem
    /\ UNCHANGED <<qcap, tickLimit, wg, mainpc, ratePerSec, limiters, sendLog, done, storeUp, batchVars, ubc, now, rows, q, qlog, wok, clientVars, cancelVars, retryVars, schedVars,
                   providerVars, ghostVars>>

\* A process that goes on to the limiter although the write failed.
MarkProcessingNoReturn(w) ==
    /\ wpc[w] = "mark"
    /\ rows' = Written(rows, UpdateStatus(rows, witem[w].id, StatusProcessing), WorkerFails)
    /\ wpc' = [wpc EXCEPT ![w] = "wait"]
    /\ UNCHANGED <<witem, wn, wok>>
    /\ UNCHANGED <<qcap, tickLimit, wg, mainpc, ratePerSec, limiters, sendLog, done, storeUp, batchVars, ubc, now, q, qlog, clientVars, cancelVars, retryVars, schedVars,
                   providerVars, ghostVars>>

\* process: UpdateStatus(processing); process returns if the write fails.
MarkProcessing(w) ==
    /\ wpc[w] = "mark"
    /\ IF WorkerFails
       THEN Abandon(w) /\ UNCHANGED rows
       ELSE /\ rows' = UpdateStatus(rows, witem[w].id, StatusProcessing)
            /\ wpc' = [wpc EXCEPT ![w] = "wait"]
            /\ UNCHANGED <<witem, wn, wok>>
    /\ UNCHANGED <<qcap, tickLimit, wg, mainpc, ratePerSec, limiters, sendLog, done, storeUp, batchVars, ubc, now, q, qlog, clientVars, cancelVars, retryVars, schedVars,
                   providerVars, ghostVars>>

\* process: limiter.Wait returns once the bucket of the notification's
\* channel has a token, taking it, or fails under a cancelled context.
LimiterWait(w) ==
    /\ wpc[w] = "wait"
    /\ IF done
       THEN Abandon(w) /\ UNCHANGED limiters
       ELSE /\ HasToken(limiters, wn[w].channel)
            /\ limiters' = TakeToken(limiters, wn[w].channel)
            /\ wpc' = [wpc EXCEPT ![w] = "send"]
            /\ UNCHANGED <<witem, wn, wok>>
    /\ UNCHANGED <<qcap, tickLimit, wg, mainpc, ratePerSec, sendLog, done, storeUp, batchVars, ubc, now, rows, q, qlog, clientVars, cancelVars, retryVars,
                   schedVars, providerVars, ghostVars>>

\* process: prov.Send; the provider answers 202 or not.  A request built on
\* a cancelled context fails before it reaches the provider.
Send(w) ==
    /\ wpc[w] = "send"
    /\ IF done
       THEN /\ wok' = [wok EXCEPT ![w] = FALSE]
            /\ UNCHANGED <<sends, accepted, sendLog>>
       ELSE /\ \E ok \in BOOLEAN :
                  /\ wok' = [wok EXCEPT ![w] = ok]
                  /\ accepted' = [accepted EXCEPT ![witem[w].id] = @ + (IF ok THEN 1 ELSE 0)]
            /\ sends' = [sends EXCEPT ![witem[w].id] = @ + 1]
            /\ sendLog' = [sendLog EXCEPT ![wn[w].channel] = Append(@, now)]
    /\ wpc' = [wpc EXCEPT ![w] = "settle"]
    /\ UNCHANGED <<qcap, tickLimit, wg, mainpc, ratePerSec, limiters, done, storeUp, batchVars, ubc, now, rows, q, qlog, witem, wn, clientVars, cancelVars, retryVars, schedVars,
                   ghostVars>>

\* process: MarkSent on success and, for a child of a batch, the goroutine
\* that will run UpdateBatchCounts; handleFailure otherwise.  A failed
\* write is only logged.
Settle(w) ==
    /\ wpc[w] = "settle"
    /\ rows' = Written(rows, IF wok[w] THEN MarkSent(rows, witem[w].id, now)
                             ELSE handleFailure(rows, witem[w].id, wn[w], now),
                       WorkerFails)
    /\ Abandon(w)
    /\ ubc' = IF ~WorkerFails /\ wok[w] /\ wn[w].batch_id # 0
              THEN [ubc EXCEPT ![wn[w].batch_id] = @ + 1]
              ELSE ubc
    /\ UNCHANGED <<qcap, tickLimit, wg, mainpc, ratePerSec, limiters, sendLog, done, storeUp, batchVars, now, q, qlog, clientVars, cancelVars, retryVars, schedVars, providerVars,
                   ghostVars>>

\* The database stops answering, and answers again.
StoreDown ==
    /\ storeUp
    /\ storeUp' = FALSE
    /\ UNCHANGED <<qcap, tickLimit, wg, mainpc, ratePerSec, limiters, sendLog, done, batchVars, ubc, now, rows, q, qlog, workerVars, clientVars, cancelVars,
                   retryVars, schedVars, providerVars, ghostVars>>
StoreBack ==
    /\ ~storeUp
    /\ storeUp' = TRUE
    /\ UNCHANGED <<qcap, tickLimit, wg, mainpc, ratePerSec, limiters, sendLog, done, batchVars, ubc, now, rows, q, qlog, workerVars, clientVars, cancelVars,
                   retryVars, schedVars, providerVars, ghostVars>>

\* main: cancelWorkers(), after the HTTP server has stopped accepting requests.
CancelWorkers ==
    /\ ~done
    /\ done' = TRUE
    /\ mainpc' = "wait"
    /\ UNCHANGED <<qcap, tickLimit, wg, ratePerSec, limiters, sendLog, storeUp, batchVars, ubc, now, rows, q, qlog, workerVars, clientVars, cancelVars,
                   retryVars, schedVars, providerVars, ghostVars>>

\* A Wait that does not look at the counter.
PoolWaitEarly ==
    /\ mainpc = "wait"
    /\ mainpc' = "exit"
    /\ UNCHANGED <<qcap, tickLimit, wg, ratePerSec, limiters, sendLog, done, storeUp, batchVars, ubc, now, rows, q, qlog, workerVars, clientVars, cancelVars,
                   retryVars, schedVars, providerVars, ghostVars>>

\* main: pool2.Wait() returns when the counter of the WaitGroup is zero.
PoolWait ==
    /\ mainpc = "wait"
    /\ wg = 0
    /\ mainpc' = "exit"
    /\ UNCHANGED <<qcap, tickLimit, wg, ratePerSec, limiters, sendLog, done, storeUp, batchVars, ubc, now, rows, q, qlog, workerVars, clientVars, cancelVars,
                   retryVars, schedVars, providerVars, ghostVars>>

WorkerStep(w) ==
    \/ Dequeue1(w)
    \/ Dequeue2(w)
    \/ Fetch(w)
    \/ MarkProcessing(w)
    \/ LimiterWait(w)
    \/ Send(w)
    \/ Settle(w)

\* ------------------------------------------------------------------ intake
NoReq == [channel |-> "", priority |-> "", recipient |-> "", content_len |-> 0,
          scheduled_at |-> Null, key |-> ""]
NoRes == [id |-> 0, dup |-> FALSE, err |-> "", status |-> "", key |-> ""]

\* The idempotency keys a caller may pass ("" = no header).
IdemKeys == {"", "order-42"}

\* All channels share the queue and the workers; the channel only selects the
\* rate limiter, so the runs use one channel.
RequestChannels == {ChannelSMS}

\* The requests of a run: valid bodies, immediate or deferred by ScheduleDelay.
Requests(t) ==
    [channel : RequestChannels, priority : Priorities, recipient : {"+905551234567"},
     content_len : {5}, scheduled_at : {Null, t + ScheduleDelay}]
ImmediateRequests == {r \in Requests(0) : r.scheduled_at = Null}

\* The bodies of the idempotency runs: two immediate requests that differ.
ReplayRequests == {r \in ImmediateRequests : r.priority # PriorityLow}

\* Create: Validate, then the idempotency lookup.  The request is a local of
\* the call: it is kept while the call runs and gone when it returns.
CreateCall(c, req, key) ==
    /\ cpc[c] = "idle"
    /\ UNCHANGED cn
    /\ IF Validate(req) # ErrNone
       THEN /\ cres' = [cres EXCEPT ![c] = [NoRes EXCEPT !.err = Validate(req),
                                                        !.key = key]]
            /\ UNCHANGED <<cpc, creq>>
       ELSE IF key # "" /\ RequestFails
       THEN /\ cres' = [cres EXCEPT ![c] = [NoRes EXCEPT !.err = ErrStore, !.key = key]]
            /\ UNCHANGED <<cpc, creq>>
       ELSE IF key # "" /\ GetByIdempotencyKey(rows, key) # 0
       THEN /\ cres' = [cres EXCEPT ![c] =
                           [id |-> GetByIdempotencyKey(rows, key), dup |-> TRUE,
                            err |-> ErrNone,
                            status |-> rows[GetByIdempotencyKey(rows, key)].status,
                            key |-> key]]
            /\ UNCHANGED <<cpc, creq>>
       ELSE /\ cres' = [cres EXCEPT ![c] = NoRes]
            /\ creq' = [creq EXCEPT ![c] =
                           [channel |-> req.channel, priority |-> req.priority,
                            recipient |-> req.recipient,
                            content_len |-> req.content_len,
                            scheduled_at |-> req.scheduled_at, key |-> key]]
            /\ cpc' = [cpc EXCEPT ![c] = "insert"]
    /\ UNCHANGED <<qcap, tickLimit, wg, mainpc, ratePerSec, limiters, sendLog, done, storeUp, batchVars, ubc, now, rows, q, qlog, workerVars, cancelVars, retryVars, schedVars,
                   providerVars, ghostVars>>

\* Create: buildNotification and repo.Create.
CreateInsert(c) ==
    /\ cpc[c] = "insert"
    /\ LET n == buildNotification(creq[c], creq[c].key, 0) IN
       IF RequestFails \/ RepoCreateConflict(rows, n)
       THEN /\ cres' = [cres EXCEPT ![c] =
                           [NoRes EXCEPT !.err = IF RequestFails THEN ErrStore ELSE ErrConflict,
                                         !.key = creq[c].key]]
            /\ cpc' = [cpc EXCEPT ![c] = "idle"]
            /\ creq' = [creq EXCEPT ![c] = NoReq]
            /\ UNCHANGED <<rows, cn>>
       ELSE /\ rows' = RepoCreate(rows, n)
            /\ cn' = [cn EXCEPT ![c] = Len(rows) + 1]
            /\ cpc' = [cpc EXCEPT ![c] = "enqueue"]
            /\ UNCHANGED <<cres, creq>>
    /\ UNCHANGED <<qcap, tickLimit, wg, mainpc, ratePerSec, limiters, sendLog, done, storeUp, batchVars, ubc, now, q, qlog, workerVars, cancelVars, retryVars, schedVars,
                   providerVars, ghostVars>>

\* enqueue: nothing for a deferred notification; otherwise q.Enqueue, and on
\* a full tier the notification is returned as built.
CreateEnqueue(c) ==
    /\ cpc[c] = "enqueue"
    /\ LET n == buildNotification(creq[c], creq[c].key, 0)
           item == Item(cn[c], n) IN
       IF n.scheduled_at # Null \/ ~EnqueueOk(q, item)
       THEN /\ cres' = [cres EXCEPT ![c] = [id |-> cn[c], dup |-> FALSE,
                                            err |-> ErrNone, status |-> n.status,
                                            key |-> creq[c].key]]
            /\ cpc' = [cpc EXCEPT ![c] = "idle"]
            /\ creq' = [creq EXCEPT ![c] = NoReq]
            /\ cn' = [cn EXCEPT ![c] = 0]
            /\ UNCHANGED <<q, qlog, intakeEnq>>
       ELSE /\ q' = Enqueue(q, item)
            /\ qlog' = LogEnqueue(qlog, item)
            /\ intakeEnq' = [intakeEnq EXCEPT ![cn[c]] = @ + 1]
            /\ cpc' = [cpc EXCEPT ![c] = "update"]
            /\ UNCHANGED <<cres, creq, cn>>
    /\ UNCHANGED <<qcap, tickLimit, wg, mainpc, ratePerSec, limiters, sendLog, done, storeUp, batchVars, ubc, now, rows, workerVars, cancelVars, retryVars, schedVars,
                   providerVars, cancelOk>>

\* enqueue: UpdateStatus(queued), reflected in the returned copy unless the
\* write failed.
CreateUpdate(c) ==
    /\ cpc[c] = "update"
    /\ rows' = Written(rows, UpdateStatus(rows, cn[c], StatusQueued), RequestFails)
    /\ cres' = [cres EXCEPT ![c] =
                   [id |-> cn[c], dup |-> FALSE, err |-> ErrNone,
                    status |-> IF RequestFails
                               THEN buildNotification(creq[c], creq[c].key, 0).status
                               ELSE StatusQueued,
                    key |-> creq[c].key]]
    /\ cpc' = [cpc EXCEPT ![c] = "idle"]
    /\ creq' = [creq EXCEPT ![c] = NoReq]
    /\ cn' = [cn EXCEPT ![c] = 0]
    /\ UNCHANGED <<qcap, tickLimit, wg, mainpc, ratePerSec, limiters, sendLog, done, storeUp, batchVars, ubc, now, q, qlog, workerVars, cancelVars, retryVars, schedVars,
                   providerVars, ghostVars>>

\* Create calls in flight that may still insert a row, and the rows they can
\* add at most: one per call without a key, one per key not yet stored.
Inserting == {c \in Clients : cpc[c] = "insert"}
Reserved ==
    Cardinality({c \in Inserting : creq[c].key = ""})
      + Cardinality({creq[c].key : c \in {d \in Inserting : creq[d].key # ""
                                                    /\ ~KeyTaken(rows, creq[d].key)}})

\* ------------------------------------------------------------ batch intake
NoBatchRes == [batch |-> 0, total |-> 0, err |-> ""]
BatchIds == 1..BatchNotif

\* A loop that validates no item.
FirstInvalidSkipped(reqs) == 0

\* The first item Validate rejects, 0 if there is none.
FirstInvalid(reqs) ==
    IF \A i \in 1..Len(reqs) : Validate(reqs[i]) = ErrNone THEN 0
    ELSE CHOOSE i \in 1..Len(reqs) :
            /\ Validate(reqs[i]) # ErrNone
            /\ \A j \in 1..(i - 1) : Validate(reqs[j]) = ErrNone

\* CreateBatch: the size checks, then Validate and buildNotification per item.
BatchCall(reqs) ==
    /\ bpc = "idle"
    /\ IF Len(reqs) = 0
       THEN /\ bres' = [NoBatchRes EXCEPT !.err = ErrBatchEmpty]
            /\ UNCHANGED <<bpc, bn>>
       ELSE IF Len(reqs) > MaxBatchSize
       THEN /\ bres' = [NoBatchRes EXCEPT !.err = ErrBatchTooLarge]
            /\ UNCHANGED <<bpc, bn>>
       ELSE IF FirstInvalid(reqs) # 0
       THEN /\ bres' = [NoBatchRes EXCEPT !.err = Validate(reqs[FirstInvalid(reqs)])]
            /\ UNCHANGED <<bpc, bn>>
       ELSE /\ bres' = NoBatchRes
            /\ bn' = [i \in 1..Len(reqs) |->
                         buildNotification(reqs[i], "", Len(batches) + 1)]
            /\ bpc' = "begin"
    /\ UNCHANGED <<qcap, tickLimit, wg, mainpc, ratePerSec, limiters, sendLog, done, storeUp, now, rows, q, qlog, batches, btx, bids, bidx, ubc, workerVars, clientVars,
                   cancelVars, retryVars, schedVars, providerVars, ghostVars>>

\* CreateBatch returns an error: the deferred Rollback drops the transaction.
BatchFails ==
    /\ bres' = [NoBatchRes EXCEPT !.err = ErrStore]
    /\ bpc' = "idle"
    /\ bn' = << >>
    /\ btx' = TxBegin
    /\ UNCHANGED <<rows, batches, bids, bidx>>

\* repo.CreateBatch: Begin and the INSERT of the batch row.
BatchInsertBatch ==
    /\ bpc = "begin"
    /\ \/ /\ ~RequestFails
          /\ btx' = TxInsertBatch(TxBegin, NewBatch(Len(bn)))
          /\ bpc' = "children"
          /\ UNCHANGED <<rows, batches, bn, bids, bidx, bres>>
       \/ BatchFails
    /\ UNCHANGED <<qcap, tickLimit, wg, mainpc, ratePerSec, limiters, sendLog, done, storeUp, now, q, qlog, ubc, workerVars, clientVars, cancelVars, retryVars, schedVars,
                   providerVars, ghostVars>>

\* repo.CreateBatch: the INSERT of the next child.
BatchInsertChild ==
    /\ bpc = "children"
    /\ \/ /\ ~RequestFails
          /\ btx' = TxInsertChild(btx, bn[Len(btx.children) + 1])
          /\ bpc' = IF Len(btx.children) + 1 = Len(bn) THEN "commit" ELSE "children"
          /\ UNCHANGED <<rows, batches, bn, bids, bidx, bres>>
       \/ BatchFails
    /\ UNCHANGED <<qcap, tickLimit, wg, mainpc, ratePerSec, limiters, sendLog, done, storeUp, now, q, qlog, ubc, workerVars, clientVars, cancelVars, retryVars, schedVars,
                   providerVars, ghostVars>>

\* repo.CreateBatch: Commit makes the batch row and the children visible.
BatchCommit ==
    /\ bpc = "commit"
    /\ \/ /\ ~RequestFails
          /\ rows' = CommitChildren(rows, btx)
          /\ batches' = CommitBatch(batches, btx)
          /\ bids' = [i \in 1..Len(bn) |-> Len(rows) + i]
          /\ bidx' = 1
          /\ btx' = TxBegin
          /\ bpc' = "enqueue"
          /\ UNCHANGED <<bn, bres>>
       \/ BatchFails
    /\ UNCHANGED <<qcap, tickLimit, wg, mainpc, ratePerSec, limiters, sendLog, done, storeUp, now, q, qlog, ubc, workerVars, clientVars, cancelVars, retryVars, schedVars,
                   providerVars, ghostVars>>

\* CreateBatch, after the loop over the notifications: return the batch.
BatchReturn(i) ==
    IF i > Len(bn)
    THEN /\ bpc' = "idle"
         /\ bres' = [batch |-> bn[1].batch_id, total |-> Len(bn), err |-> ErrNone]
         /\ bn' = << >>
         /\ bids' = << >>
         /\ bidx' = 0
    ELSE /\ bpc' = "enqueue"
         /\ bidx' = i
         /\ UNCHANGED <<bn, bids, bres>>

\* CreateBatch, loop body: enqueue for a child that is not scheduled.
BatchEnqueue ==
    /\ bpc = "enqueue"
    /\ LET n == bn[bidx]
           item == Item(bids[bidx], n) IN
       IF n.scheduled_at # Null \/ ~EnqueueOk(q, item)
       THEN /\ BatchReturn(bidx + 1)
            /\ UNCHANGED <<q, qlog, intakeEnq>>
       ELSE /\ q' = Enqueue(q, item)
            /\ qlog' = LogEnqueue(qlog, item)
            /\ intakeEnq' = [intakeEnq EXCEPT ![bids[bidx]] = @ + 1]
            /\ bpc' = "update"
            /\ UNCHANGED <<bn, bids, bidx, bres>>
    /\ UNCHANGED <<qcap, tickLimit, wg, mainpc, ratePerSec, limiters, sendLog, done, storeUp, now, rows, batches, btx, ubc, workerVars, clientVars, cancelVars,
                   retryVars, schedVars, providerVars, cancelOk>>

\* enqueue: UpdateStatus(queued) for the child just enqueued.
BatchUpdate ==
    /\ bpc = "update"
    /\ rows' = Written(rows, UpdateStatus(rows, bids[bidx], StatusQueued), RequestFails)
    /\ BatchReturn(bidx + 1)
    /\ UNCHANGED <<qcap, tickLimit, wg, mainpc, ratePerSec, limiters, sendLog, done, storeUp, now, q, qlog, batches, btx, ubc, workerVars, clientVars, cancelVars,
                   retryVars, schedVars, providerVars, ghostVars>>

\* The goroutine a worker started after MarkSent: UpdateBatchCounts.
RunUpdateBatchCounts(b) ==
    /\ ubc[b] > 0
    /\ batches' = Written(batches, UpdateBatchCounts(batches, rows, b), RequestFails)
    /\ ubc' = [ubc EXCEPT ![b] = @ - 1]
    /\ UNCHANGED <<qcap, tickLimit, wg, mainpc, ratePerSec, limiters, sendLog, done, storeUp, now, rows, q, qlog, bpc, bn, btx, bids, bidx, bres, workerVars, clientVars,
                   cancelVars, retryVars, schedVars, providerVars, ghostVars>>

\* Cancel: GetByID and the switch on the status read.
CancelCall(k, id) ==
    /\ kpc[k] = "idle"
    /\ kid' = [kid EXCEPT ![k] = id]
    /\ IF RequestFails
       THEN kres' = [kres EXCEPT ![k] = ErrStore] /\ UNCHANGED kpc
       ELSE IF id \notin Ids
       THEN kres' = [kres EXCEPT ![k] = ErrNotFound] /\ UNCHANGED kpc
       ELSE IF rows[id].status = StatusCancelled
       THEN kres' = [kres EXCEPT ![k] = ErrAlreadyCancelled] /\ UNCHANGED kpc
       ELSE IF rows[id].status \in {StatusProcessing, StatusSent}
       THEN kres' = [kres EXCEPT ![k] = ErrNotCancellable] /\ UNCHANGED kpc
       ELSE kres' = [kres EXCEPT ![k] = ""] /\ kpc' = [kpc EXCEPT ![k] = "write"]
    /\ UNCHANGED <<qcap, tickLimit, wg, mainpc, ratePerSec, limiters, sendLog, done, storeUp, batchVars, ubc, now, rows, q, qlog, workerVars, clientVars, retryVars, schedVars,
                   providerVars, ghostVars>>

\* Cancel: repo.Cancel.
CancelWrite(k) ==
    /\ kpc[k] = "write"
    /\ rows' = Written(rows, RepoCancel(rows, kid[k]), RequestFails)
    /\ kres' = [kres EXCEPT ![k] = IF RequestFails THEN ErrStore ELSE ErrNone]
    /\ cancelOk' = IF RequestFails THEN cancelOk ELSE cancelOk \cup {kid[k]}
    /\ kpc' = [kpc EXCEPT ![k] = "idle"]
    /\ UNCHANGED <<qcap, tickLimit, wg, mainpc, ratePerSec, limiters, sendLog, done, storeUp, batchVars, ubc, now, q, qlog, kid, workerVars, clientVars, retryVars, schedVars,
                   providerVars, intakeEnq>>

\* -------------------------------------------------------------- schedulers
\* RetryWorker.poll: FindDueRetries.
RetryPoll ==
    /\ rpc = "idle"
    /\ \E found \in (IF WorkerFails THEN {{}} ELSE FindDueRetries(rows, now)) :
          /\ rlist' = found
          /\ rpc' = IF found = {} THEN "idle" ELSE "enqueue"
    /\ UNCHANGED <<qcap, tickLimit, wg, mainpc, ratePerSec, limiters, sendLog, done, storeUp, batchVars, ubc, now, rows, q, qlog, rcur, workerVars, clientVars, cancelVars, schedVars,
                   providerVars, ghostVars>>

\* RetryWorker.poll, loop body: Enqueue the next row; a full tier skips it.
RetryEnqueue ==
    /\ rpc = "enqueue"
    /\ \E id \in rlist :
          /\ rlist' = rlist \ {id}
          /\ IF EnqueueOk(q, Item(id, rows[id]))
             THEN /\ q' = Enqueue(q, Item(id, rows[id]))
                  /\ qlog' = LogEnqueue(qlog, Item(id, rows[id]))
                  /\ rcur' = id
                  /\ rpc' = "update"
             ELSE /\ rpc' = IF rlist \ {id} = {} THEN "idle" ELSE "enqueue"
                  /\ qlog' = LogFull(qlog, id)
                  /\ UNCHANGED <<q, rcur>>
    /\ UNCHANGED <<qcap, tickLimit, wg, mainpc, ratePerSec, limiters, sendLog, done, storeUp, batchVars, ubc, now, rows, workerVars, clientVars, cancelVars, schedVars,
                   providerVars, ghostVars>>

\* RetryWorker.poll, loop body: UpdateStatus(queued) after the enqueue.
RetryUpdate ==
    /\ rpc = "update"
    /\ rows' = Written(rows, UpdateStatus(rows, rcur, StatusQueued), WorkerFails)
    /\ rcur' = 0
    /\ rpc' = IF rlist = {} THEN "idle" ELSE "enqueue"
    /\ UNCHANGED <<qcap, tickLimit, wg, mainpc, ratePerSec, limiters, sendLog, done, storeUp, batchVars, ubc, now, q, qlog, rlist, workerVars, clientVars, cancelVars, schedVars,
                   providerVars, ghostVars>>

\* RetryWorker.Run: the select takes the context's Done channel and returns.
RetryReturn ==
    /\ rpc = "idle"
    /\ done
    /\ rpc' = "stopped"
    /\ UNCHANGED <<qcap, tickLimit, wg, mainpc, ratePerSec, limiters, sendLog, done, storeUp, batchVars, ubc, now, rows, q, qlog, rlist, rcur, workerVars, clientVars, cancelVars, schedVars,
                   providerVars, ghostVars>>

\* SchedulerWorker.poll: FindDueScheduled.
SchedulerPoll ==
    /\ spc = "idle"
    /\ \E found \in (IF WorkerFails THEN {{}} ELSE FindDueScheduled(rows, now)) :
          /\ slist' = found
          /\ spc' = IF found = {} THEN "idle" ELSE "enqueue"
    /\ UNCHANGED <<qcap, tickLimit, wg, mainpc, ratePerSec, limiters, sendLog, done, storeUp, batchVars, ubc, now, rows, q, qlog, scur, workerVars, clientVars, cancelVars, retryVars,
                   providerVars, ghostVars>>

\* SchedulerWorker.poll, loop body: Enqueue the next row; a full tier skips it.
SchedulerEnqueue ==
    /\ spc = "enqueue"
    /\ \E id \in slist :
          /\ slist' = slist \ {id}
          /\ IF EnqueueOk(q, Item(id, rows[id]))
             THEN /\ q' = Enqueue(q, Item(id, rows[id]))
                  /\ qlog' = LogEnqueue(qlog, Item(id, rows[id]))
                  /\ scur' = id
                  /\ spc' = "update"
             ELSE /\ spc' = IF slist \ {id} = {} THEN "idle" ELSE "enqueue"
                  /\ qlog' = LogFull(qlog, id)
                  /\ UNCHANGED <<q, scur>>
    /\ UNCHANGED <<qcap, tickLimit, wg, mainpc, ratePerSec, limiters, sendLog, done, storeUp, batchVars, ubc, now, rows, workerVars, clientVars, cancelVars, retryVars,
                   providerVars, ghostVars>>

\* SchedulerWorker.poll, loop body: UpdateStatus(queued) after the enqueue.
SchedulerUpdate ==
    /\ spc = "update"
    /\ rows' = Written(rows, UpdateStatus(rows, scur, StatusQueued), WorkerFails)
    /\ scur' = 0
    /\ spc' = IF slist = {} THEN "idle" ELSE "enqueue"
    /\ UNCHANGED <<qcap, tickLimit, wg, mainpc, ratePerSec, limiters, sendLog, done, storeUp, batchVars, ubc, now, q, qlog, slist, workerVars, clientVars, cancelVars, retryVars,
                   providerVars, ghostVars>>

\* SchedulerWorker.Run: the select takes the context's Done channel and returns.
SchedulerReturn ==
    /\ spc = "idle"
    /\ done
    /\ spc' = "stopped"
    /\ UNCHANGED <<qcap, tickLimit, wg, mainpc, ratePerSec, limiters, sendLog, done, storeUp, batchVars, ubc, now, rows, q, qlog, slist, scur, workerVars, clientVars, cancelVars, retryVars,
                   providerVars, ghostVars>>

\* -------------------------------------------------------------------- time
\* The persisted timestamps that are still ahead of the clock.
Deadlines ==
    {rows[i].next_retry_at : i \in Ids} \cup {rows[i].scheduled_at : i \in Ids}
Ahead == {d \in Deadlines : d # Null /\ d > now}

\* The time that passes refills the buckets of the rate limiter.
Elapse(t) ==
    /\ now' = t
    /\ limiters' = Refill(limiters, ratePerSec, t - now)

\* The clock advances to the next persisted timestamp.
Tick ==
    /\ Ahead # {}
    /\ Elapse(CHOOSE d \in Ahead : \A e \in Ahead : d <= e)
    /\ UNCHANGED <<qcap, tickLimit, wg, mainpc, ratePerSec, sendLog, done, storeUp, batchVars, ubc, rows, q, qlog, workerVars, clientVars, cancelVars, retryVars, schedVars,
                   providerVars, ghostVars>>

\* ----------------------------------------------------------- specification
\* The state after construction, for a queue of the given capacities that
\* holds the given items, and a database that holds the given notifications
\* and cuts its due-queries at the given number of rows, and a rate limiter
\* of the given rate.
Start(caps, items, table, limit, rate) ==
    /\ now = 0
    /\ rows = table
    /\ q = items
    /\ qcap = caps
    /\ tickLimit = limit
    /\ ratePerSec = rate
    /\ limiters = NewLimiters(rate)
    /\ sendLog = [c \in Channels |-> << >>]
    /\ done = FALSE
    /\ mainpc = "serve"
    /\ wg = PoolSize
    /\ storeUp = TRUE
    /\ wpc = [w \in Workers |-> "deq1"]
    /\ witem = [w \in Workers |-> NoItem]
    /\ wn = [w \in Workers |-> NoRow]
    /\ wok = [w \in Workers |-> FALSE]
    /\ cpc = [c \in Clients |-> "idle"]
    /\ creq = [c \in Clients |-> NoReq]
    /\ cn = [c \in Clients |-> 0]
    /\ cres = [c \in Clients |-> NoRes]
    /\ kpc = [k \in Cancellers |-> "idle"]
    /\ kid = [k \in Cancellers |-> 0]
    /\ kres = [k \in Cancellers |-> ""]
    /\ rpc = "idle"
    /\ rlist = {}
    /\ rcur = 0
    /\ spc = "idle"
    /\ slist = {}
    /\ scur = 0
    /\ sends = [i \in AllIds |-> 0]
    /\ accepted = [i \in AllIds |-> 0]
    /\ cancelOk = {}
    /\ intakeEnq = [i \in AllIds |-> 0]
    /\ qlog = [enq |-> items, deq |-> [p \in Priorities |-> << >>], full |-> {}]
    /\ batches = << >>
    /\ ubc = [b \in BatchIds |-> 0]
    /\ bpc = "idle"
    /\ bn = << >>
    /\ btx = TxBegin
    /\ bids = << >>
    /\ bidx = 0
    /\ bres = NoBatchRes

\* main: q := queue.New(), with the channels empty.
Init ==
    Start([p \in Priorities |-> ScaledCap(p)], [p \in Priorities |-> << >>], << >>, DueLimit, RateLimit)

\* A Create call starts while the store has room for the row it may insert.
Intake(c, room, reqs, keys) ==
    \/ \E req \in reqs, key \in keys :
          /\ ~done
          /\ \/ Len(rows) + Reserved < room
             \/ key # "" /\ (KeyTaken(rows, key) \/ \E d \in Inserting : creq[d].key = key)
          /\ CreateCall(c, req, key)
    \/ CreateInsert(c)
    \/ CreateEnqueue(c)
    \/ CreateUpdate(c)

Cancelling(k) ==
    \/ \E id \in 1..MaxNotif : CancelCall(k, id)
    \/ CancelWrite(k)

\* The lifecycle of a notification: one caller, Cancel, the pool, both
\* schedulers and the clock.
Next ==
    \/ \E w \in Running : WorkerStep(w)
    \/ Intake(1, MaxNotif, Requests(now), {""})
    \/ \E k \in Cancellers : Cancelling(k)
    \/ RetryPoll
    \/ RetryEnqueue
    \/ RetryUpdate
    \/ SchedulerPoll
    \/ SchedulerEnqueue
    \/ SchedulerUpdate
    \/ Tick

Spec == Init /\ [][Next]_vars

\* The queue between producers and the pool: callers create immediate
\* notifications of any priority while the workers run.
NextQueue ==
    \/ \E w \in Running : WorkerStep(w)
    \/ Intake(1, QueueNotif, ImmediateRequests, {""})

SpecQueue == Init /\ [][NextQueue]_vars

\* The workers keep running: a worker that can take a step eventually does.
FairSpecQueue == SpecQueue /\ \A w \in Running : WF_vars(WorkerStep(w))

\* Concurrent intake: callers create notifications with and without an
\* idempotency key while a worker dispatches them.
NextIntake ==
    \/ \E c \in Clients : Intake(c, IntakeNotif, ReplayRequests, IdemKeys)
    \/ WorkerStep(1)

SpecIntake == Init /\ [][NextIntake]_vars

\* The retry loop: one caller, the pool, the retry scheduler and the clock.
NextRetry ==
    \/ \E w \in Running : WorkerStep(w)
    \/ Intake(1, RetryNotif, ImmediateRequests, {""})
    \/ RetryPoll
    \/ RetryEnqueue
    \/ RetryUpdate
    \/ Tick

SpecRetry == Init /\ [][NextRetry]_vars

\* Batch intake: one caller submits batches of valid and invalid items, and
\* any statement of the transaction may fail.
ValidRequest == [channel |-> ChannelSMS, priority |-> PriorityNormal,
                 recipient |-> "+905551234567", content_len |-> 5,
                 scheduled_at |-> Null, key |-> ""]
InvalidRequests == {[ValidRequest EXCEPT !.channel = "fax"],
                    [ValidRequest EXCEPT !.content_len = 0]}
BatchItems ==
    {ValidRequest, [ValidRequest EXCEPT !.priority = PriorityHigh],
     [ValidRequest EXCEPT !.scheduled_at = ScheduleDelay]} \cup InvalidRequests
Oversized == [i \in 1..(MaxBatchSize + 1) |-> ValidRequest]
BatchRequests == UNION {[1..k -> BatchItems] : k \in 0..BatchLen} \cup {Oversized}

Rejected(reqs) == Len(reqs) = 0 \/ Len(reqs) > MaxBatchSize \/ FirstInvalid(reqs) # 0

BatchIntake ==
    \/ \E reqs \in BatchRequests :
          /\ Rejected(reqs) \/ Len(rows) + Len(reqs) <= BatchNotif
          /\ BatchCall(reqs)
    \/ BatchInsertBatch
    \/ BatchInsertChild
    \/ BatchCommit
    \/ BatchEnqueue
    \/ BatchUpdate

SpecBatch == Init /\ [][BatchIntake]_vars

\* The queue at its real capacities. Earlier Enqueue calls have filled each
\* channel to its capacity or to one item less; the items carry ids beyond
\* those this run hands out. Callers then create notifications of every
\* priority and no worker drains the channels.
Filled(p, k) == [i \in 1..k |-> [id |-> MaxNotif + QueueNotif + IntakeNotif + i,
                                 channel |-> ChannelSMS, priority |-> p]]
NearFull == {[p \in Priorities |-> Filled(p, NewCap(p) - f[p])] :
                f \in [Priorities -> {0, 1}]}

InitEnqueue ==
    \E items \in NearFull : Start([p \in Priorities |-> NewCap(p)], items, << >>, DueLimit, RateLimit)

NextEnqueue == Intake(1, QueueNotif, ImmediateRequests, {""})

SpecEnqueue == InitEnqueue /\ [][NextEnqueue]_vars

\* The queue between concurrent producers and consumers: callers create
\* notifications of two priorities while every worker of the pool dequeues
\* and dispatches.
NextFifo ==
    \/ \E w \in Workers : WorkerStep(w)
    \/ \E c \in Clients : Intake(c, QueueNotif, ReplayRequests, {""})

SpecFifo == Init /\ [][NextFifo]_vars

\* Shutdown: a caller creates notifications and the workers dispatch them
\* until main cancels the workers' context.
NextShutdown ==
    \/ \E w \in Running : WorkerStep(w)
    \/ Intake(1, QueueNotif, ReplayRequests, {""})
    \/ CancelWorkers

SpecShutdown == Init /\ [][NextShutdown]_vars

\* The worker goroutines keep running until they return.
FairSpecShutdown == SpecShutdown /\ \A w \in Running : WF_vars(WorkerStep(w))

\* An unreliable database: a caller creates immediate notifications and a
\* worker dispatches them while the database goes away and comes back.
NextOutage ==
    \/ \E w \in Running : WorkerStep(w)
    \/ Intake(1, QueueNotif, ImmediateRequests, {""})
    \/ StoreDown
    \/ StoreBack

SpecOutage == Init /\ [][NextOutage]_vars

\* Scheduled delivery: a caller creates immediate and deferred
\* notifications, singly and in batches, one request at a time, while the
\* scheduled scheduler polls, a worker dispatches and the clock advances.
ScheduledRequests == {r \in Requests(now) : r.priority = PriorityNormal}
Deferred == [ValidRequest EXCEPT !.scheduled_at = now + ScheduleDelay]
ScheduledBatches == {<<Deferred>>, <<ValidRequest, Deferred>>}

NextScheduled ==
    \/ \E w \in Running : WorkerStep(w)
    \/ bpc = "idle" /\ Intake(1, BatchNotif, ScheduledRequests, {""})
    \/ \E reqs \in ScheduledBatches :
          /\ ~done /\ cpc[1] = "idle"
          /\ Len(rows) + Len(reqs) <= BatchNotif
          /\ BatchCall(reqs)
    \/ BatchInsertBatch
    \/ BatchInsertChild
    \/ BatchCommit
    \/ BatchEnqueue
    \/ BatchUpdate
    \/ SchedulerPoll
    \/ SchedulerEnqueue
    \/ SchedulerUpdate
    \/ Tick

SpecScheduled == Init /\ [][NextScheduled]_vars

\* The worker goroutines keep being scheduled.
FairSpecScheduled == SpecScheduled /\ \A w \in Running : WF_vars(WorkerStep(w))

\* Restart: the process starts with an empty queue over a database that an
\* earlier run left behind. Every row is a low-priority notification whose
\* last send failed: one with a retry due now, one with a retry due when the
\* clock has advanced, one whose retries are used up. The due-queries are
\* cut at the scaled limit. The retry scheduler polls, a worker dispatches
\* and the clock advances.
Persisted(retryCount, nextRetry) ==
    ScheduleRetry(<<buildNotification([ValidRequest EXCEPT !.priority = PriorityLow], "", 0)>>,
                  1, retryCount, nextRetry)[1]
LeftBehind ==
    {Persisted(1, 0), Persisted(2, RetryBackoff[2]), Persisted(MaxRetries, 0)}
InitRestart ==
    \E table \in UNION {[1..k -> LeftBehind] : k \in 1..RestartNotif} :
        Start([p \in Priorities |-> ScaledCap(p)], [p \in Priorities |-> << >>], table,
              ScaledLimit, RateLimit)

NextRestart ==
    \/ \E w \in Running : WorkerStep(w)
    \/ RetryPoll
    \/ RetryEnqueue
    \/ RetryUpdate
    \/ Tick

SpecRestart == InitRestart /\ [][NextRestart]_vars

\* The retry scheduler's ticker keeps firing and its poll keeps running.
FairSpecRestart ==
    SpecRestart /\ WF_vars(RetryPoll) /\ WF_vars(RetryEnqueue) /\ WF_vars(RetryUpdate)

\* The retry loop with every goroutine scheduled: the handler of a request
\* runs to its return, the workers keep dequeuing, the retry scheduler's
\* ticker keeps firing and the clock advances.
FairSpecRetry ==
    /\ SpecRetry
    /\ WF_vars(CreateInsert(1) \/ CreateEnqueue(1) \/ CreateUpdate(1))
    /\ \A w \in Running : WF_vars(WorkerStep(w))
    /\ WF_vars(RetryPoll)
    /\ WF_vars(RetryEnqueue)
    /\ WF_vars(RetryUpdate)
    /\ WF_vars(Tick)

\* Cancel against dispatch: a caller creates immediate notifications, Cancel
\* calls arrive for them at any moment, and the workers dispatch.
NextCancel ==
    \/ \E w \in Running : WorkerStep(w)
    \/ Intake(1, MaxNotif, ImmediateRequests, {""})
    \/ \E k \in Cancellers : Cancelling(k)

SpecCancel == Init /\ [][NextCancel]_vars

\* The rate limiter under load: earlier Create calls have left queued
\* notifications of two channels waiting on the normal tier; every worker of
\* the pool dispatches them through a limiter of the scaled rate while the
\* clock advances second by second.
Waiting(ch) ==
    [buildNotification([ValidRequest EXCEPT !.channel = ch], "", 0) EXCEPT
        !.status = StatusQueued]
Backlog(table) ==
    [p \in Priorities |->
        IF p = PriorityNormal THEN [i \in 1..Len(table) |-> Item(i, table[i])] ELSE << >>]
InitRate ==
    \E table \in [1..RateNotif -> {Waiting(ChannelSMS), Waiting(ChannelEmail)}] :
        Start([p \in Priorities |-> NewCap(p)], Backlog(table), table, DueLimit, ScaledRate)

\* One second passes.
Second ==
    /\ now < RateHorizon
    /\ Elapse(now + 1)
    /\ UNCHANGED <<qcap, tickLimit, wg, mainpc, ratePerSec, sendLog, done, storeUp, batchVars, ubc, rows, q, qlog, workerVars, clientVars, cancelVars, retryVars, schedVars,
                   providerVars, ghostVars>>

NextRate ==
    \/ \E w \in Workers : WorkerStep(w)
    \/ Second

SpecRate == InitRate /\ [][NextRate]_vars

\* The whole process until main exits: a caller creates immediate and
\* deferred notifications, every worker of the pool and both schedulers run
\* and the clock advances; main cancels the workers' context and waits for
\* the pool.
NextExit ==
    \/ \E w \in Workers : WorkerStep(w)
    \/ Intake(1, MaxNotif, ScheduledRequests, {""})
    \/ RetryPoll
    \/ RetryEnqueue
    \/ RetryUpdate
    \/ RetryReturn
    \/ SchedulerPoll
    \/ SchedulerEnqueue
    \/ SchedulerUpdate
    \/ SchedulerReturn
    \/ Tick
    \/ CancelWorkers
    \/ PoolWait

SpecExit == Init /\ [][NextExit]_vars

\* Every goroutine keeps being scheduled.
FairSpecExit ==
    /\ SpecExit
    /\ \A w \in Workers : WF_vars(WorkerStep(w))
    /\ WF_vars(RetryEnqueue \/ RetryUpdate \/ RetryReturn)
    /\ WF_vars(SchedulerEnqueue \/ SchedulerUpdate \/ SchedulerReturn)
    /\ WF_vars(PoolWait)

\* Batch counters: a caller submits batches of immediate notifications,
\* Cancel calls arrive for the children, a worker dispatches them and starts
\* the goroutines that recompute the counters, the retry scheduler polls and
\* the clock advances.
ImmediateBatches == {<<ValidRequest>>}

NextCounters ==
    \/ \E w \in Running : WorkerStep(w)
    \/ \E reqs \in ImmediateBatches :
          /\ ~done
          /\ Len(rows) + Len(reqs) <= MaxNotif
          /\ BatchCall(reqs)
    \/ BatchInsertBatch
    \/ BatchInsertChild
    \/ BatchCommit
    \/ BatchEnqueue
    \/ BatchUpdate
    \/ \E b \in BatchIds : RunUpdateBatchCounts(b)
    \/ \E k \in Cancellers : Cancelling(k)
    \/ RetryPoll
    \/ RetryEnqueue
    \/ RetryUpdate
    \/ Tick

SpecCounters == Init /\ [][NextCounters]_vars

\* Every goroutine keeps being scheduled and every handler runs to its return.
FairSpecCounters ==
    /\ SpecCounters
    /\ \A w \in Running : WF_vars(WorkerStep(w))
    /\ \A b \in BatchIds : WF_vars(RunUpdateBatchCounts(b))
    /\ WF_vars(BatchInsertBatch \/ BatchInsertChild \/ BatchCommit \/ BatchEnqueue \/ BatchUpdate)
    /\ \A k \in Cancellers : WF_vars(CancelWrite(k))
    /\ WF_vars(RetryPoll)
    /\ WF_vars(RetryEnqueue)
    /\ WF_vars(RetryUpdate)
    /\ WF_vars(Tick)

\* Stale reads: the process starts over a database that holds one
\* notification whose first send failed and whose retry is due. Every worker
\* of the pool dispatches, the retry scheduler polls, the clock advances and
\* the database goes away and comes back, so that an UpdateStatus(queued)
\* of the retry scheduler can fail after its Enqueue succeeded. The retry
\* scheduler stops polling after StaleRetries re-admissions.
InitStale ==
    Start([p \in Priorities |-> ScaledCap(p)], [p \in Priorities |-> << >>],
          <<Persisted(1, 0)>>, DueLimit, RateLimit)

Readmissions == Len(qlog.enq[PriorityLow])
NextStale ==
    \/ \E w \in Workers : WorkerStep(w)
    \/ Readmissions < StaleRetries /\ RetryPoll
    \/ RetryEnqueue
    \/ RetryUpdate
    \/ StoreDown
    \/ StoreBack
    \/ Tick

SpecStale == InitStale /\ [][NextStale]_vars

\* Validation: one caller submits well-formed and malformed bodies (unknown
\* and missing channel, unknown priority, empty recipient, content of 0, 1,
\* MaxContentLen and MaxContentLen + 1 bytes, in every combination) while a
\* worker dispatches what was accepted; a body that will be stored is only
\* submitted while the store has room for it.
ValidationBodies ==
    [channel : Channels \cup {"fax", ""}, priority : Priorities \cup {"urgent"},
     recipient : {"", "+905551234567"},
     content_len : {0, 1, MaxContentLen, MaxContentLen + 1}, scheduled_at : {Null}]

NextValidate ==
    \/ \E req \in ValidationBodies :
          /\ Validate(req) # ErrNone \/ Len(rows) + Reserved < MaxNotif
          /\ CreateCall(1, req, "")
    \/ CreateInsert(1)
    \/ CreateEnqueue(1)
    \/ CreateUpdate(1)
    \/ WorkerStep(1)

SpecValidate == Init /\ [][NextValidate]_vars

\* Scheduler ticks: the process starts with an empty queue over a database
\* that holds TickNotif low-priority notifications, each either failed with a
\* retry due or scheduled and due. Both schedulers poll with the due-queries
\* cut at the scaled limit and a worker dispatches; the clock stands still,
\* so that consecutive polls of a scheduler are consecutive ticks.
Parked ==
    buildNotification([ValidRequest EXCEPT !.priority = PriorityLow, !.scheduled_at = 0],
                      "", 0)
InitTick ==
    \E table \in [1..TickNotif -> {Persisted(1, 0), Parked}] :
        Start([p \in Priorities |-> ScaledCap(p)], [p \in Priorities |-> << >>], table,
              ScaledLimit, RateLimit)

NextTick ==
    \/ WorkerStep(1)
    \/ RetryPoll
    \/ RetryEnqueue
    \/ RetryUpdate
    \/ SchedulerPoll
    \/ SchedulerEnqueue
    \/ SchedulerUpdate

SpecTick == InitTick /\ [][NextTick]_vars

\* Counting: a caller submits one batch of two immediate notifications, a
\* worker dispatches them and starts the goroutines that recompute the
\* counters of the batch.
PairBatches == {<<ValidRequest, ValidRequest>>}

NextTally ==
    \/ WorkerStep(1)
    \/ \E reqs \in PairBatches :
          /\ Len(rows) + Len(reqs) <= BatchNotif
          /\ BatchCall(reqs)
    \/ BatchInsertBatch
    \/ BatchInsertChild
    \/ BatchCommit
    \/ BatchEnqueue
    \/ BatchUpdate
    \/ \E b \in BatchIds : RunUpdateBatchCounts(b)

SpecTally == Init /\ [][NextTally]_vars

\* The whole pool over a reliable database: a caller creates immediate and
\* deferred notifications, Cancel calls arrive, every worker of the pool
\* dispatches, both schedulers poll and the clock advances. No write fails.
NextPool ==
    \/ \E w \in Workers : WorkerStep(w)
    \/ Intake(1, MaxNotif, Requests(now), {""})
    \/ \E k \in Cancellers : Cancelling(k)
    \/ RetryPoll
    \/ RetryEnqueue
    \/ RetryUpdate
    \/ SchedulerPoll
    \/ SchedulerEnqueue
    \/ SchedulerUpdate
    \/ Tick

SpecPool == Init /\ [][NextPool]_vars

\* ================================================================== claims

\* The transitions of the status state machine.
Listed(n, st) ==
    \/ n.status = StatusPending /\ st = StatusQueued
    \/ n.status = StatusScheduled /\ st = StatusQueued
    \/ n.status = StatusQueued /\ st = StatusProcessing
    \/ n.status = StatusProcessing /\ st \in {StatusSent, StatusFailed}
    \/ n.status = StatusFailed /\ st = StatusQueued /\ n.retry_count < n.max_retries
    \/ n.status \in {StatusPending, StatusQueued, StatusScheduled} /\ st = StatusCancelled

\* sent, cancelled, or failed with the retries used up.
Terminal(n) ==
    \/ n.status \in {StatusSent, StatusCancelled}
    \/ n.status = StatusFailed /\ n.retry_count = n.max_retries

InTier(i, p) == \E k \in 1..Len(q[p]) : q[p][k].id = i
Returned(w) == wpc[w] \in {"deq1", "deq2"} /\ wpc'[w] = "fetch"

\* C1: every change of a row's status is a listed transition; in particular
\* no write of queued moves a row out of processing or sent, and none moves
\* it out of failed unless retries remain.  Stated here for the writes of
\* queued, the clause the claim singles out.
C1_NoLateQueued ==
    [][\A i \in Ids :
          (rows'[i].status # rows[i].status /\ rows'[i].status = StatusQueued)
              => Listed(rows[i], StatusQueued)]_vars

\* C2: once a row is sent, cancelled, or failed with retry_count =
\* max_retries, no step changes its status.
C2_TerminalNeverChanges ==
    [][\A i \in Ids : Terminal(rows[i]) => rows'[i].status = rows[i].status]_vars

\* C3: whenever Dequeue returns an item of the normal or low tier, the high
\* tier is empty at that moment.
C3_NoLowerWhileHighWaits ==
    [][\A w \in Workers :
          (Returned(w) /\ witem'[w].priority # PriorityHigh)
              => Len(q[PriorityHigh]) = 0]_vars

\* C4: a Dequeue called while the high tier holds an item returns the oldest
\* high item and leaves the normal and low tiers as they were.
C4_HighFirst ==
    [][\A w \in Workers :
          (wpc[w] = "deq1" /\ wpc'[w] # "deq1" /\ Len(q[PriorityHigh]) > 0)
              => /\ wpc'[w] = "fetch"
                 /\ witem'[w] = Head(q[PriorityHigh])
                 /\ q' = [q EXCEPT ![PriorityHigh] = Tail(@)]]_vars

\* A worker holds a high item that was enqueued after a normal or low item
\* which is still waiting.
C4_Witness ==
    \E w \in Workers :
       /\ wpc[w] = "fetch"
       /\ witem[w].priority = PriorityHigh
       /\ \E p \in {PriorityNormal, PriorityLow} :
             \E k \in 1..Len(q[p]) : q[p][k].id < witem[w].id

\* C5: with the workers running, every item on the high tier is eventually
\* dequeued.
C5_HighEventuallyDequeued ==
    \A i \in 1..QueueNotif : InTier(i, PriorityHigh) ~> ~InTier(i, PriorityHigh)

\* A high item has been dequeued and sent while an item enqueued before it
\* still waits on a lower tier.
C5_Witness ==
    \E i \in Ids :
       /\ rows[i].priority = PriorityHigh
       /\ sends[i] > 0
       /\ \E j \in Ids : j < i /\ (InTier(j, PriorityNormal) \/ InTier(j, PriorityLow))

\* The rows holding idempotency key k, and the calls that have returned.
WithKey(k) == {i \in Ids : rows[i].key = k}
ReturnedCalls(k) == {c \in Clients : cpc[c] = "idle" /\ cres[c].key = k /\ cres[c].err # ""}

\* C6: for a non-empty idempotency key the store never holds two rows with
\* that key, and once a Create call with the key has returned (with the row,
\* a duplicate or Conflict) it holds exactly one.
C6_OneRowPerKey ==
    \A k \in IdemKeys \ {""} :
       /\ Cardinality(WithKey(k)) <= 1
       /\ ReturnedCalls(k) # {} => Cardinality(WithKey(k)) = 1

\* Two calls with one key both passed the lookup before either inserted: one
\* has persisted the row and the other has returned Conflict.
C6_Witness ==
    \E k \in IdemKeys \ {""} : \E c, d \in ReturnedCalls(k) :
       /\ cres[c].err = ErrNone /\ ~cres[c].dup
       /\ cres[d].err = ErrConflict
       /\ Cardinality(WithKey(k)) = 1

\* C7 as stated: every returned Create call with a non-empty key returns the
\* one row with that key and no error, at most one of them not as a duplicate.
C7_ReplayReturnsDuplicate ==
    \A k \in IdemKeys \ {""} :
       /\ \A c \in ReturnedCalls(k) :
             cres[c].err = ErrNone /\ cres[c].id \in WithKey(k)
       /\ \A c, d \in ReturnedCalls(k) : c # d => cres[c].dup \/ cres[d].dup

\* What the returned calls with key k look like: the row with no error, or
\* Conflict with no row; one of them at most is not a duplicate; intake has
\* enqueued at most one item for the row.
ReplayOutcome(k) ==
    /\ \A c \in ReturnedCalls(k) :
          \/ cres[c].err = ErrNone /\ cres[c].id \in WithKey(k)
          \/ cres[c].err = ErrConflict /\ cres[c].id = 0 /\ WithKey(k) # {}
    /\ \A c, d \in ReturnedCalls(k) :
          (c # d /\ cres[c].err = ErrNone /\ cres[d].err = ErrNone)
              => cres[c].dup \/ cres[d].dup
    /\ \A i \in WithKey(k) : intakeEnq[i] <= 1

\* A Create call with key k runs its lookup: it goes on to insert, or returns.
CreateStarts(c, k) ==
    /\ cpc[c] = "idle"
    /\ \/ cpc'[c] = "insert" /\ creq'[c].key = k
       \/ cpc'[c] = "idle" /\ cres'[c] # cres[c] /\ cres'[c].key = k

\* C7, amended: a Create call with a non-empty key that does not persist the
\* row returns that row with duplicate = true and no error whenever its
\* lookup runs after the row was inserted, and otherwise returns Conflict
\* with no row; in both cases nothing more is enqueued for the row.
C7_DuplicateOrConflict ==
    [][\A k \in IdemKeys \ {""} :
          /\ ReplayOutcome(k)'
          /\ \A c \in Clients :
                (CreateStarts(c, k) /\ WithKey(k) # {})
                  => /\ cpc'[c] = "idle"
                     /\ cres'[c].err = ErrNone
                     /\ cres'[c].dup
                     /\ cres'[c].id \in WithKey(k)]_vars

\* One call persisted the row and another, started later, got it back as a
\* duplicate.
C7_Witness ==
    \E k \in IdemKeys \ {""} : \E c, d \in ReturnedCalls(k) :
       /\ cres[c].err = ErrNone /\ ~cres[c].dup
       /\ cres[d].err = ErrNone /\ cres[d].dup
       /\ cres[d].id = cres[c].id
       /\ intakeEnq[cres[c].id] = 1

\* C8: once a Cancel call has returned nil for a notification, its status
\* stays cancelled and the provider receives no further send for it.
C8_CancelPreventsDispatch ==
    [][\A i \in cancelOk :
          rows'[i].status = StatusCancelled /\ sends'[i] = sends[i]]_vars

\* A Cancel call reads the row and returns or goes on to write.
CancelReturns(k) ==
    kpc[k] = "idle" /\ <<kid[k], kres[k], kpc[k]>>' # <<kid[k], kres[k], kpc[k]>>

\* C9: Cancel answers AlreadyCancelled, NotCancellable or NotFound by the
\* row's status, and writes nothing to a row that is cancelled, processing
\* or sent, also when the row got there after Cancel read it.
C9_RejectedCancelWritesNothing ==
    [][\A k \in Cancellers :
          /\ (CancelReturns(k) /\ kid'[k] \notin Ids)
                => kres'[k] = ErrNotFound /\ rows' = rows
          /\ (CancelReturns(k) /\ kid'[k] \in Ids
                  /\ rows[kid'[k]].status = StatusCancelled)
                => kres'[k] = ErrAlreadyCancelled /\ rows' = rows
          /\ (CancelReturns(k) /\ kid'[k] \in Ids
                  /\ rows[kid'[k]].status \in {StatusProcessing, StatusSent})
                => kres'[k] = ErrNotCancellable /\ rows' = rows
          /\ (kpc[k] = "write" /\ kpc'[k] = "idle")
                => rows[kid[k]].status
                      \notin {StatusCancelled, StatusProcessing, StatusSent}]_vars

\* C10: a notification whose sends have all failed and whose retries are
\* used up has been sent max_retries + 1 times and is failed with
\* retry_count = max_retries, no next_retry_at and an error message.
C10_RetryExhaustion ==
    \A i \in Ids :
       (rows[i].status = StatusFailed /\ rows[i].retry_count = rows[i].max_retries
            /\ accepted[i] = 0)
         => /\ sends[i] = rows[i].max_retries + 1
            /\ rows[i].next_retry_at = Null
            /\ rows[i].err

\* The retry scheduler admits a row: its Enqueue succeeded.
RetryAdmits(i) == rpc = "enqueue" /\ rpc' = "update" /\ rcur' = i

C12_BatchAllOrNothing ==
    /\ \A b \in 1..(BatchNotif + 1) :
          IF b \in 1..Len(batches)
          THEN Cardinality(Children(rows, b)) = batches[b].total
          ELSE Children(rows, b) = {}
    /\ (bpc = "idle" /\ bres.err = ErrNone /\ bres.batch # 0)
          => /\ bres.batch \in 1..Len(batches)
             /\ bres.total = Cardinality(Children(rows, bres.batch))

\* A CreateBatch call has returned a batch of two children, both stored.
C12_Witness ==
    /\ bpc = "idle"
    /\ bres.err = ErrNone
    /\ bres.batch \in 1..Len(batches)
    /\ batches[bres.batch].total = 2
    /\ Cardinality(Children(rows, bres.batch)) = 2

\* The error the size and validation rules give a list of requests, nil if
\* they accept it.
BatchRejection(reqs) ==
    IF Len(reqs) = 0 THEN ErrBatchEmpty
    ELSE IF Len(reqs) > 1000 THEN ErrBatchTooLarge
    ELSE LET bad == {i \in 1..Len(reqs) : Validate(reqs[i]) # ErrNone} IN
         IF bad = {} THEN ErrNone
         ELSE Validate(reqs[CHOOSE i \in bad : \A j \in bad : i <= j])

\* C13: CreateBatch on an empty list returns BatchEmpty, on more than 1000
\* items BatchTooLarge, on a list with an invalid item that item's
\* validation error; the call then returns at once with no batch, and the
\* store, the open transaction and the queue are as before.
C13_RejectedBatchLeavesNoTrace ==
    [][\A reqs \in BatchRequests :
          (BatchCall(reqs) /\ BatchRejection(reqs) # ErrNone)
            => /\ bpc' = "idle"
               /\ bres' = [batch |-> 0, total |-> 0, err |-> BatchRejection(reqs)]
               /\ rows' = rows
               /\ batches' = batches
               /\ btx' = btx
               /\ q' = q]_vars

\* After a batch was stored, a list whose invalid item comes second has been
\* rejected with that item's error.
C13_Witness ==
    /\ bpc = "idle"
    /\ bres = [batch |-> 0, total |-> 0, err |-> ErrInvalidContent]
    /\ Len(batches) = 1
    /\ Len(rows) = batches[1].total

\* C14: a Create call that finds the tier of its notification full returns
\* QueueFull, and the row it persisted stays pending.
C14_QueueFullSurfaced ==
    [][\A c \in Clients :
          (/\ cpc[c] = "enqueue"
           /\ cpc'[c] = "idle"
           /\ creq[c].scheduled_at = Null
           /\ ~EnqueueOk(q, Item(cn[c], rows[cn[c]])))
            => /\ cres'[c].err = ErrQueueFull
               /\ rows'[cn[c]].status = StatusPending]_vars

\* ---- C15
\* C15: Enqueue is non-blocking and bounded. A caller at its Enqueue call can
\* always take the step; when the tier named by the item's priority holds
\* fewer items than its capacity (high 1000, normal 5000, low 2000) the step
\* appends the item to that tier and to no other, otherwise the call reports
\* QueueFull (the caller returns without the status update) and all three
\* tiers are unchanged; no tier's depth exceeds its capacity in any state.
TierCapacity(p) == CASE p = PriorityHigh -> 1000
                     [] p = PriorityNormal -> 5000
                     [] p = PriorityLow -> 2000
EnqueueCallStep(c) ==
    LET item == Item(cn[c], rows[cn[c]]) IN
    (cpc[c] = "enqueue" /\ cpc'[c] # "enqueue" /\ rows[cn[c]].scheduled_at = Null)
      => IF Len(q[item.priority]) < TierCapacity(item.priority)
         THEN /\ q' = [q EXCEPT ![item.priority] = Append(@, item)]
              /\ cpc'[c] = "update"
         ELSE /\ q' = q
              /\ cpc'[c] = "idle"
              /\ cres'[c].status = StatusPending
C15_EnqueueBounded ==
    /\ [](\A p \in Priorities : Len(q[p]) <= TierCapacity(p))
    /\ [](\A c \in Clients : cpc[c] = "enqueue" => ENABLED CreateEnqueue(c))
    /\ [][\A c \in Clients : EnqueueCallStep(c)]_vars
\* One tier is at its capacity with a created notification's item appended
\* last, and a later Create of the same priority has returned its row
\* pending after finding the tier full.
C15_Witness ==
    \E p \in Priorities, i \in Ids, j \in Ids :
        /\ Len(q[p]) = TierCapacity(p)
        /\ q[p][Len(q[p])].id = i
        /\ j > i /\ rows[j].priority = p /\ rows[j].status = StatusPending
        /\ cres[1].id = j /\ cres[1].err = ErrNone

\* ---- C16
\* C16: intra-tier FIFO. On every tier the items Dequeue has returned so far,
\* in the order returned, followed by the items still waiting, are exactly
\* the items enqueued on that tier in the order enqueued: an item enqueued
\* first is returned first, every enqueued item is returned at most once,
\* and nothing is returned that was not enqueued.
C16_IntraTierFifo ==
    \A p \in Priorities : qlog.deq[p] \o q[p] = qlog.enq[p]
\* Two workers hold two different items of the same tier at once, each
\* returned by its own Dequeue call.
C16_Witness ==
    \E p \in Priorities :
        /\ Len(qlog.deq[p]) >= 2
        /\ wpc[1] \notin {"deq1", "deq2"} /\ wpc[2] \notin {"deq1", "deq2"}
        /\ witem[1].priority = p /\ witem[2].priority = p
        /\ witem[1].id # witem[2].id

\* ---- C17
\* C17: Dequeue blocks while all three tiers are empty and the context is not
\* cancelled (the worker stays inside Dequeue); it returns (item, true) only
\* by removing exactly one item, the oldest of one tier; a Dequeue waiting on
\* an empty queue can leave only with (empty item, false), only when the
\* context is cancelled, and once the context is cancelled it does leave.
InDequeue(w) == wpc[w] \in {"deq1", "deq2"}
AllEmpty == \A p \in Priorities : q[p] = << >>
C17_DequeueBlocksUntilCancelled ==
    /\ [][\A w \in Workers :
            /\ (InDequeue(w) /\ AllEmpty /\ ~done) => InDequeue(w)'
            /\ (InDequeue(w) /\ wpc'[w] = "fetch")
                 => \E p \in Priorities :
                       /\ q[p] # << >>
                       /\ witem'[w] = Head(q[p])
                       /\ q' = [q EXCEPT ![p] = Tail(@)]
            /\ (InDequeue(w) /\ AllEmpty /\ ~InDequeue(w)')
                 => /\ done
                    /\ wpc'[w] = "stopped"
                    /\ witem'[w] = NoItem
                    /\ q' = q]_vars
    /\ \A w \in Running :
          (wpc[w] = "deq2" /\ AllEmpty /\ done) ~> (wpc[w] = "stopped" \/ ~AllEmpty)
\* A worker that went back to an empty queue after a dispatch has returned
\* from Run on the cancellation.
C17_Witness ==
    \E w \in Workers, i \in Ids :
        /\ wpc[w] = "stopped" /\ witem[w] = NoItem
        /\ AllEmpty /\ done
        /\ sends[i] > 0

\* ---- C18
\* The items enqueued so far for notification id, as (tier, position) pairs.
EnqueuedFor(id) ==
    UNION {{<<p, i>> : i \in {j \in DOMAIN qlog.enq[p] : qlog.enq[p][j].id = id}} :
              p \in Priorities}
\* What a Create that found room returns with: the row is persisted, exactly
\* one item {id, channel, priority} has been placed, on the tier of its
\* priority, and the copy returned is not a duplicate.
CreatePlacedOne(c) ==
    LET id == cn[c] IN
    /\ id \in Ids
    /\ Cardinality(EnqueuedFor(id)) = 1
    /\ \A pi \in EnqueuedFor(id) :
          /\ pi[1] = creq[c].priority
          /\ qlog.enq[pi[1]][pi[2]] = [id |-> id, channel |-> creq[c].channel,
                                        priority |-> creq[c].priority]
    /\ cres'[c].id = id /\ cres'[c].dup = FALSE /\ cres'[c].err = ErrNone
IsDeferred(id) == id \in Ids /\ rows[id].scheduled_at # Null
C19_ScheduledDelivery ==
    /\ [](\A id \in AllIds :
            IsDeferred(id)
              => /\ intakeEnq[id] = 0
                 /\ EnqueuedFor(id) = {}
                      => rows[id].status = StatusScheduled /\ sends[id] = 0)
    /\ [][\A id \in AllIds :
            (id \in 1..Len(rows') /\ id \notin Ids /\ rows'[id].scheduled_at # Null)
              => rows'[id].status = StatusScheduled]_vars
    /\ [][\A id \in AllIds :
            (IsDeferred(id) /\ EnqueuedFor(id) = {} /\ EnqueuedFor(id)' # {})
              => /\ spc = "enqueue" /\ spc' = "update" /\ scur' = id
                 /\ rows[id].scheduled_at <= now
                 /\ q' = [q EXCEPT ![rows[id].priority] =
                             Append(@, [id |-> id, channel |-> rows[id].channel,
                                        priority |-> rows[id].priority])]]_vars
    /\ \A id \in AllIds :
          (IsDeferred(id) /\ EnqueuedFor(id) # {}) ~> (sends[id] > 0)
\* Two deferred notifications, one created singly and one in a batch, have
\* both been delivered after their time came.
C19_Witness ==
    \E i \in Ids, j \in Ids :
        /\ rows[i].scheduled_at # Null /\ rows[i].batch_id = 0
        /\ rows[j].scheduled_at # Null /\ rows[j].batch_id # 0
        /\ rows[i].status = StatusSent /\ rows[j].status = StatusSent
        /\ now >= rows[i].scheduled_at /\ now >= rows[j].scheduled_at

\* ---- C20
\* C20 as stated: durability of the retry schedule. From a fresh start with
\* an empty queue, a tick of the retry scheduler lists, from the stored rows
\* alone, every row with status failed, retry_count < max_retries and
\* next_retry_at <= now; each listed row is enqueued on the tier of its
\* priority unless that tier is full; the tick can always happen; and every
\* row that is due is eventually enqueued by the retry scheduler, or meets a
\* full tier.
RetryDue(id) ==
    /\ id \in Ids
    /\ rows[id].status = StatusFailed
    /\ rows[id].retry_count < rows[id].max_retries
    /\ rows[id].next_retry_at # Null
    /\ rows[id].next_retry_at <= now
TierFull(id) == Len(q[rows[id].priority]) >= Cap(rows[id].priority)
C20_RetryScheduleDurable ==
    /\ [][(rpc = "idle" /\ rpc' = "enqueue") => rlist' = {id \in AllIds : RetryDue(id)}]_vars
    /\ []((rpc = "idle" /\ \E id \in AllIds : RetryDue(id)) => ENABLED <<RetryPoll>>_vars)
    /\ [][\A id \in AllIds :
            (rpc = "enqueue" /\ id \in rlist /\ id \notin rlist')
              => IF TierFull(id)
                 THEN q' = q
                 ELSE /\ q' = [q EXCEPT ![rows[id].priority] =
                                  Append(@, [id |-> id, channel |-> rows[id].channel,
                                             priority |-> rows[id].priority])]
                      /\ rcur' = id]_vars
    /\ \A id \in AllIds :
          RetryDue(id) ~> ((rpc = "update" /\ rcur = id) \/ (id \in Ids /\ TierFull(id)))

\* ---- C21
\* The provider has turned down every send of the retry budget.
BudgetSpent(id) ==
    /\ accepted[id] = 0
    /\ rows[id].status = StatusFailed
    /\ rows[id].retry_count >= rows[id].max_retries
\* C21: eventual delivery. With the workers, the retry scheduler and the
\* clock running and no shutdown, a non-scheduled notification for which
\* intake placed an item on the queue (no Cancel is ever called) eventually
\* reaches status sent, unless the provider turns down the first attempt and
\* every retry of the budget; and a row that is sent after retries has
\* retry_count equal to the number of failed sends that came before.
C21_EventualDelivery ==
    /\ \A id \in AllIds :
          (id \in Ids /\ intakeEnq[id] > 0)
            ~> (id \in Ids /\ (rows[id].status = StatusSent \/ BudgetSpent(id)))
    /\ [](\A id \in AllIds :
            (id \in Ids /\ rows[id].status = StatusSent)
              => rows[id].retry_count = sends[id] - accepted[id])

\* ---- C22
\* C22: cancel races dispatch. Whenever a worker's fetch of a dequeued
\* notification finds status cancelled, process returns at once: the worker
\* drops the item and goes back to Dequeue without a limiter wait or a
\* provider call, and the store is left as it was.
C22_CancelledIsSkipped ==
    [][\A w \in Workers :
          (/\ wpc[w] = "fetch" /\ wpc'[w] # "fetch"
           /\ witem[w].id \in Ids
           /\ rows[witem[w].id].status = StatusCancelled)
            => /\ wpc'[w] = "deq1"
               /\ witem'[w] = NoItem
               /\ rows' = rows
               /\ batches' = batches
               /\ sends' = sends]_vars
\* The item of a cancelled notification has been dequeued and dropped: the
\* row is cancelled, the provider was never called for it, the queue is
\* empty and every worker is back in Dequeue.
C22_Witness ==
    \E id \in Ids :
        /\ rows[id].status = StatusCancelled
        /\ id \in cancelOk
        /\ sends[id] = 0
        /\ \E p \in Priorities : \E k \in DOMAIN qlog.deq[p] : qlog.deq[p][k].id = id
        /\ AllEmpty
        /\ \A w \in Running : InDequeue(w) /\ witem[w] = NoItem

\* ---- C23
\* The shutdown is over: the context is cancelled, every worker has returned
\* from Run and no request is in flight.
ShutDown ==
    /\ done
    /\ \A w \in Running : wpc[w] = "stopped"
    /\ \A c \in Clients : cpc[c] = "idle"
\* A row one of the due-queries will select once its time has come.
Readmitted(n) ==
    \/ n.status = StatusFailed /\ n.retry_count < n.max_retries /\ n.next_retry_at # Null
    \/ n.status = StatusScheduled /\ n.scheduled_at # Null
\* How far a status is along the lifecycle; a failed row with retries left
\* may go back to queued, and nothing else goes back.
Progress(st) ==
    CASE st \in {StatusPending, StatusScheduled} -> 0
      [] st = StatusQueued -> 1
      [] st = StatusProcessing -> 2
      [] OTHER -> 3
Backwards(n, st) ==
    /\ Progress(st) < Progress(n.status)
    /\ ~(n.status = StatusFailed /\ n.retry_count < n.max_retries /\ st = StatusQueued)
\* C23: no work loss on graceful shutdown. Wherever in the workers' pipeline
\* the cancellation arrives, no step taken once the context is cancelled moves
\* a row's status backwards, and once the shutdown is over every row is
\* terminal or is one the retry scheduler or the scheduled scheduler will
\* select after a restart.
C23_NoWorkLoss ==
    /\ [](ShutDown => \A id \in Ids : Terminal(rows[id]) \/ Readmitted(rows[id]))
    /\ [][done => \A id \in Ids : ~Backwards(rows[id], rows'[id].status)]_vars

\* ---- C24
\* The Send calls the provider received for a channel in the window of one
\* second that starts at t.
SendsInWindow(ch, t) ==
    Cardinality({k \in DOMAIN sendLog[ch] : sendLog[ch][k] >= t /\ sendLog[ch][k] <= t + 1})
\* C24: rate cap. With a bucket of rate R and burst R per channel shared by
\* all workers, the provider receives at most R + burst sends for one channel
\* in any window of one second, and a worker's Wait takes its token from the
\* bucket of its notification's channel and from no other.
C24_RateCap ==
    /\ [](\A ch \in Channels : \A t \in 0..RateHorizon :
            SendsInWindow(ch, t) <= ratePerSec + ratePerSec)
    /\ [][\A w \in Workers :
            (wpc[w] = "wait" /\ wpc'[w] = "send")
              => /\ limiters[wn[w].channel] > 0
                 /\ limiters' = [limiters EXCEPT ![wn[w].channel] = @ - 1]]_vars

\* ---- C25
\* C25: shutdown terminates. Once the workers' context is cancelled (no new
\* request is accepted from then on), every worker of the pool eventually
\* returns from Run, both scheduler loops eventually return, and main's
\* Pool.Wait eventually returns, and never before every worker that
\* Pool.Start launched has returned.
C25_ShutdownTerminates ==
    /\ \A w \in Workers : done ~> (wpc[w] = "stopped")
    /\ done ~> (rpc = "stopped")
    /\ done ~> (spc = "stopped")
    /\ done ~> (mainpc = "exit")
    /\ [](mainpc = "exit" => \A w \in Workers : wpc[w] = "stopped")
    /\ [](wg = Cardinality({w \in Workers : wpc[w] # "stopped"}))
\* main has left Pool.Wait with every worker and both schedulers returned; the
\* cancellation found a worker inside its pipeline, whose notification is
\* left in processing.
C25_Witness ==
    /\ mainpc = "exit"
    /\ \A w \in Workers : wpc[w] = "stopped"
    /\ rpc = "stopped" /\ spc = "stopped"
    /\ \E id \in Ids : rows[id].status = StatusProcessing

\* ---- C26
\* The counters of batch b are what a recount of its children gives.
CountersMatch(b) == batches[b] = UpdateBatchCounts(batches, rows, b)[b]
\* C26: batch counters are eventually consistent. With every goroutine
\* running, each batch eventually has, and from then on keeps, pending, sent,
\* failed and cancelled counters equal to the counts of its children by
\* status, whether the children end sent, failed or cancelled. (In every run
\* the children stop changing status after finitely many steps.)
C26_CountersConverge ==
    \A b \in BatchIds : <>[](b \in 1..Len(batches) => CountersMatch(b))

\* ---------------------------------------------------------------------- C27
\* C27: in every reachable state a notification with status failed and
\* retry_count < max_retries has a non-null next_retry_at, and the value a
\* failure writes at time t is strictly later than t.
AwaitsRetry(n) == n.status = StatusFailed /\ n.retry_count < n.max_retries
C27_RetryTimeSet ==
    /\ [](\A i \in Ids : AwaitsRetry(rows[i]) => rows[i].next_retry_at # Null)
    /\ [][\A i \in Ids :
            (rows'[i].next_retry_at # rows[i].next_retry_at
                /\ rows'[i].next_retry_at # Null)
            => rows'[i].next_retry_at > now]_vars

\* ---------------------------------------------------------------------- C28
\* C28: in every reachable state next_retry_at is non-null only while the
\* notification awaits a retry, that is while its status is failed and its
\* retry_count is below max_retries; it is null once the row is queued
\* again, processing, sent, cancelled or terminally failed.
C28_RetryTimeOnlyWhileAwaiting ==
    \A i \in Ids : rows[i].next_retry_at # Null => AwaitsRetry(rows[i])

\* ---------------------------------------------------------------------- C29
\* C29: the retry_count of every notification starts at 0, never decreases
\* whatever the order in which workers settle (a worker may settle from a
\* copy of the row it read before another worker's write), and always stays
\* within 0..max_retries.
C29_RetryCountMonotonic ==
    /\ [](\A i \in Ids : rows[i].retry_count \in 0..rows[i].max_retries)
    /\ [][\A i \in 1..Len(rows') :
            IF i \in Ids THEN rows'[i].retry_count >= rows[i].retry_count
            ELSE rows'[i].retry_count = 0]_vars

\* ---------------------------------------------------------------------- C30
\* C30: in every reachable state a notification with status sent has a
\* non-null sent_at and a non-null provider_msg_id, and a notification with
\* status scheduled has a non-null scheduled_at.
C30_SettledFieldsSet ==
    \A i \in Ids :
        /\ rows[i].status = StatusSent => (rows[i].sent_at # Null /\ rows[i].msg)
        /\ rows[i].status = StatusScheduled => rows[i].scheduled_at # Null

\* One notification has been sent while another is still scheduled.
C30_Witness ==
    \E i, j \in Ids :
        /\ rows[i].status = StatusSent /\ accepted[i] > 0
        /\ rows[j].status = StatusScheduled

\* ---------------------------------------------------------------------- C31
\* C31: Validate accepts a request exactly when its channel is sms, email or
\* push, its priority is high, normal or low, its recipient is non-empty and
\* its content is 1 to 4096 bytes long; otherwise it returns the error of
\* the first failing rule in the order channel, priority, recipient,
\* content; and a Create call with an invalid request stores no row and
\* enqueues nothing.
Expected(req) ==
    CASE req.channel \notin {"sms", "email", "push"} -> ErrInvalidChannel
      [] req.channel \in {"sms", "email", "push"}
           /\ req.priority \notin {"high", "normal", "low"} -> ErrInvalidPriority
      [] req.channel \in {"sms", "email", "push"}
           /\ req.priority \in {"high", "normal", "low"}
           /\ req.recipient = "" -> ErrInvalidRecipient
      [] req.channel \in {"sms", "email", "push"}
           /\ req.priority \in {"high", "normal", "low"}
           /\ req.recipient # ""
           /\ req.content_len \notin 1..4096 -> ErrInvalidContent
      [] OTHER -> ErrNone
C31_Validation ==
    [][\A req \in ValidationBodies :
          CreateCall(1, req, "") =>
             IF Expected(req) = ErrNone
             THEN cpc'[1] = "insert" /\ creq'[1].channel = req.channel
                    /\ creq'[1].priority = req.priority
             ELSE /\ cres'[1].err = Expected(req)
                  /\ cres'[1].id = 0
                  /\ cpc'[1] = "idle"
                  /\ rows' = rows /\ q' = q /\ qlog' = qlog]_vars

\* A call was rejected for its recipient after another call had stored a
\* notification.
C31_Witness ==
    /\ cres[1].err = ErrInvalidRecipient
    /\ cpc[1] = "idle"
    /\ Len(rows) = 1

\* ---------------------------------------------------------------------- C32
\* C32: for each row its due-query returned, the retry scheduler and the
\* scheduled scheduler enqueue an item with the row's own priority; when the
\* tier is full the row's status and all its other fields are left as they
\* are and the next tick's due-query returns the row again; when the enqueue
\* succeeds the row's status is set to queued, so that no later tick
\* returns it.
ScheduleDue(id) ==
    /\ id \in Ids
    /\ rows[id].status = StatusScheduled
    /\ rows[id].scheduled_at # Null
    /\ rows[id].scheduled_at <= now
OwnItem(id) == [id |-> id, channel |-> rows[id].channel, priority |-> rows[id].priority]
C32_SchedulerTick ==
    /\ [][\A id \in AllIds :
            (rpc = "enqueue" /\ id \in rlist /\ id \notin rlist')
              => /\ rows' = rows
                 /\ IF TierFull(id)
                    THEN q' = q /\ rpc' # "update"
                    ELSE /\ q' = [q EXCEPT ![rows[id].priority] = Append(@, OwnItem(id))]
                         /\ rpc' = "update" /\ rcur' = id]_vars
    /\ [][\A id \in AllIds :
            (spc = "enqueue" /\ id \in slist /\ id \notin slist')
              => /\ rows' = rows
                 /\ IF TierFull(id)
                    THEN q' = q /\ spc' # "update"
                    ELSE /\ q' = [q EXCEPT ![rows[id].priority] = Append(@, OwnItem(id))]
                         /\ spc' = "update" /\ scur' = id]_vars
    /\ [][(rpc = "update" /\ rpc' # "update")
            => rows' = [rows EXCEPT ![rcur].status = StatusQueued]]_vars
    /\ [][(spc = "update" /\ spc' # "update")
            => rows' = [rows EXCEPT ![scur].status = StatusQueued]]_vars
    /\ [][(rpc = "idle" /\ rpc' = "enqueue")
            => \A id \in qlog.full : RetryDue(id) => id \in rlist']_vars
    /\ [][(spc = "idle" /\ spc' = "enqueue")
            => \A id \in qlog.full : ScheduleDue(id) => id \in slist']_vars

\* ---------------------------------------------------------------------- C33
\* C33: on a provider failure for a notification read with retry_count = r
\* the worker calls MarkFailed (status failed, next_retry_at cleared,
\* retry_count unchanged) when r >= max_retries, and otherwise ScheduleRetry
\* with retry_count r + 1 and next_retry_at = now + B[min(r, len(B) - 1)],
\* so that the last backoff entry serves every r beyond the sequence.
ReadCounts == 0..(MaxRetries + 2)
SettlesFailure(w) == wpc[w] = "settle" /\ wpc'[w] # "settle" /\ ~wok[w]
C33_FailureHandling ==
    /\ [](\A r \in ReadCounts :
             BackoffFor(r) = RetryBackoff[Min(r, Len(RetryBackoff) - 1) + 1])
    /\ [][\A w \in Workers :
            SettlesFailure(w) =>
              LET id == witem[w].id
                  r == wn[w].retry_count
              IN IF WorkerFails THEN rows' = rows
                 ELSE IF r >= wn[w].max_retries
                 THEN rows' = [rows EXCEPT ![id].status = StatusFailed,
                                           ![id].next_retry_at = Null,
                                           ![id].err = TRUE]
                 ELSE rows' = [rows EXCEPT
                                  ![id].status = StatusFailed,
                                  ![id].retry_count = r + 1,
                                  ![id].next_retry_at =
                                      now + RetryBackoff[Min(r, Len(RetryBackoff) - 1) + 1],
                                  ![id].err = TRUE]]_vars

\* A worker that read retry_count = max_retries has marked the notification
\* failed for good after its send was turned down.
C33_Witness ==
    \E i \in Ids :
        /\ rows[i].status = StatusFailed
        /\ rows[i].next_retry_at = Null
        /\ rows[i].err
        /\ sends[i] > MaxRetries

\* ---------------------------------------------------------------------- C34
\* C34: every provider send of a notification is made by a worker that has
\* earlier written status processing for that notification and has then
\* obtained a token from the rate limiter of the notification's channel; if
\* the processing write fails or the limiter's wait is cancelled the
\* provider is not called, and on the cancellation the row is left as the
\* worker wrote it, in processing.
Reaches(w, pc) == wpc[w] # pc /\ wpc'[w] = pc
Leaves(w, pc) == wpc[w] = pc /\ wpc'[w] # pc
ChildrenWhere(b, P(_)) == Cardinality({i \in Ids : rows[i].batch_id = b /\ P(rows[i])})
IsLive(n) == ~Terminal(n)
IsSent(n) == n.status = StatusSent
IsDead(n) == n.status = StatusFailed /\ Terminal(n)
IsCancelled(n) == n.status = StatusCancelled
Recounted(b) == ubc'[b] < ubc[b] /\ storeUp
C35_CountersExact ==
    /\ [][\A b \in BatchIds :
            Recounted(b) =>
               /\ batches'[b].pending = ChildrenWhere(b, IsLive)
               /\ batches'[b].sent = ChildrenWhere(b, IsSent)
               /\ batches'[b].failed = ChildrenWhere(b, IsDead)
               /\ batches'[b].cancelled = ChildrenWhere(b, IsCancelled)
               /\ batches'[b].pending + batches'[b].sent + batches'[b].failed
                    + batches'[b].cancelled = batches'[b].total]_vars
    /\ [][\A b \in 1..Len(batches) :
            /\ b \in 1..Len(batches')
            /\ batches'[b].total = batches[b].total]_vars

\* ---------------------------------------------------------------------- C36
\* C36: as long as the process is not shut down, every notification whose
\* stored status is queued has an item in the queue or is held by a worker
\* that has dequeued its item and has not settled it yet; no late
\* UpdateStatus(queued) of a producer leaves a row queued that nothing will
\* dispatch.
HeldByWorker(i) ==
    \E w \in Workers :
        witem[w].id = i /\ wpc[w] \in {"fetch", "mark", "wait", "send", "settle"}
C36_NoOrphanedQueued ==
    ~done =>
       \A i \in Ids :
          rows[i].status = StatusQueued =>
             (\E p \in Priorities : InTier(i, p)) \/ HeldByWorker(i)

\* ---------------------------------------------------------------------- C37
\* C37: the provider accepts at most one send of any notification: once a
\* send of a notification has been accepted and its row has reached sent,
\* the notification is never passed to the provider again, also when the
\* status write after an enqueue failed and the row was enqueued twice.
C37_AtMostOnceAccepted ==
    /\ [](\A i \in AllIds : accepted[i] <= 1)
    /\ [][\A i \in AllIds : sends'[i] > sends[i] => accepted[i] = 0]_vars

\* ---------------------------------------------------------------------- C38
\* C38: provided every UpdateStatus(queued) issued by intake and by the
\* schedulers succeeds, in every reachable state the three tiers together
\* hold at most one item per notification and no two workers are processing
\* the same notification.
ItemsOf(i) ==
    UNION {{<<p, k>> : k \in {j \in DOMAIN q[p] : q[p][j].id = i}} : p \in Priorities}
HoldersOf(i) ==
    {w \in Workers : witem[w].id = i
                       /\ wpc[w] \in {"fetch", "mark", "wait", "send", "settle"}}
C38_SingleDispatch ==
    \A i \in Ids : Cardinality(ItemsOf(i)) <= 1 /\ Cardinality(HoldersOf(i)) <= 1

\* A notification that was enqueued before has been enqueued again by a
\* scheduler and its one item is waiting on the queue.
C38_Witness ==
    \E i \in Ids : Cardinality(EnqueuedFor(i)) >= 2 /\ Cardinality(ItemsOf(i)) = 1

\* ---------------------------------------------------------------------- C39
\* C39: once the workers' context is cancelled no Dequeue call removes an
\* item from any tier: a Dequeue that starts under a cancelled context
\* returns the empty item and false even when a tier holds items, so the
\* items queued at shutdown stay in the queue.
StartsDequeue(w) == wpc[w] = "deq1" /\ wpc'[w] # "deq1"
C39_NoDequeueAfterCancel ==
    /\ [][done => qlog'.deq = qlog.deq]_vars
    /\ [][\A w \in Workers :
            (done /\ StartsDequeue(w)) => (wpc'[w] = "deq2" /\ q' = q)]_vars
    /\ [][\A w \in Workers :
            (done /\ wpc[w] = "deq2" /\ wpc'[w] # "deq2")
               => (wpc'[w] = "stopped" /\ q' = q)]_vars

====
